---- MODULE Spec2Model ----
(***************************************************************************)
(* Model of the evaluation and scoring engine of the bulk feedback         *)
(* generator: FeedbackProcessor (batch orchestration, single submission),  *)
(* EvaluationDimensions (dimension registry, weighted overall score),      *)
(* AssignmentAnalyzer (analysis by assignment type) and FileUploadHandler  *)
(* (text extraction of uploaded files).                                    *)
(*                                                                         *)
(* Strings are sequences of one-character strings, so that the regular     *)
(* expressions of the code (splitting, keyword search, trimming) are       *)
(* computed on characters.  JavaScript numbers are exact rationals         *)
(* [n, d] in lowest terms with d > 0, plus NaN [0, 0] and the infinities   *)
(* [1, 0], [-1, 0]; rounding errors of doubles are not modelled.           *)
(***************************************************************************)
EXTENDS Integers, Sequences, FiniteSets, TLC

VARIABLES
  mode,        \* which entry point this run exercises: "bulk", "upload", "eval",
               \* "word" for countSyllables, or "conc" for calls of
               \* processSingleAssignment made together
  input,       \* argument `files` of processBulkAssignments (NotArray or a sequence)
  options,     \* argument `options` of processBulkAssignments
  pc,          \* position of the running call
  idx,         \* index of the loop of the running call (0-based, as files.entries())
  results,     \* the `results` array of processBulkAssignments
  outcome,     \* how the call ended: "none", "returned", "thrown"
  thrown,      \* message of the error the call threw (<<>> when none)
  uploads,     \* argument `files` of FileUploadHandler.processUploadedFiles
  processed,   \* the `processedFiles` array of processUploadedFiles
  text,        \* argument `text` of the evaluator calls, `word` of countSyllables
  call,        \* the evaluator call made: [op, dimension]
  ret,         \* what the evaluator call returned or threw
  calls        \* the local variables of the calls of processSingleAssignment in flight

vars == <<mode, input, options, pc, idx, results, outcome, thrown,
          uploads, processed, text, call, ret, calls>>

-----------------------------------------------------------------------------
(* JavaScript numbers *)

Abs(k) == IF k < 0 THEN -k ELSE k

Sign(k) == IF k < 0 THEN -1 ELSE IF k > 0 THEN 1 ELSE 0

RECURSIVE GCD(_, _)
GCD(a, b) == IF b = 0 THEN a ELSE GCD(b, a % b)

\* the number n/d as JavaScript computes the quotient of two integers
Q(n, d) ==
  IF d = 0 THEN [n |-> Sign(n), d |-> 0]
  ELSE LET g == GCD(Abs(n), Abs(d))
       IN [n |-> (Sign(d) * n) \div g, d |-> Abs(d) \div g]

I(k) == [n |-> k, d |-> 1]

NaN == [n |-> 0, d |-> 0]

IsNaN(x) == x.d = 0 /\ x.n = 0

IsFinite(x) == x.d > 0

Add(x, y) ==
  IF IsFinite(x) /\ IsFinite(y) THEN Q(x.n * y.d + y.n * x.d, x.d * y.d)
  ELSE IF IsNaN(x) \/ IsNaN(y) THEN NaN
  ELSE IF IsFinite(x) THEN y
  ELSE IF IsFinite(y) THEN x
  ELSE IF x.n = y.n THEN x ELSE NaN

Neg(x) == [n |-> -x.n, d |-> x.d]

Sub(x, y) == Add(x, Neg(y))

Mul(x, y) ==
  IF IsFinite(x) /\ IsFinite(y) THEN Q(x.n * y.n, x.d * y.d)
  ELSE IF IsNaN(x) \/ IsNaN(y) \/ x.n = 0 \/ y.n = 0 THEN NaN
  ELSE [n |-> Sign(x.n) * Sign(y.n), d |-> 0]

Div(x, y) ==
  IF IsNaN(x) \/ IsNaN(y) THEN NaN
  ELSE IF IsFinite(x) /\ IsFinite(y) THEN Q(x.n * y.d, x.d * y.n)
  ELSE IF IsFinite(x) THEN I(0)
  ELSE IF IsFinite(y) THEN [n |-> x.n * (IF y.n < 0 THEN -1 ELSE 1), d |-> 0]
  ELSE NaN

\* x < y; every comparison with NaN is false
Lt(x, y) ==
  IF IsNaN(x) \/ IsNaN(y) THEN FALSE
  ELSE IF x.d = 0 /\ y.d = 0 THEN x.n < y.n
  ELSE x.n * y.d < y.n * x.d

Gt(x, y) == Lt(y, x)

Le(x, y) == ~IsNaN(x) /\ ~IsNaN(y) /\ ~Lt(y, x)

Ge(x, y) == Le(y, x)

MathMin(x, y) == IF IsNaN(x) \/ IsNaN(y) THEN NaN ELSE IF Lt(y, x) THEN y ELSE x

MathMax(x, y) == IF IsNaN(x) \/ IsNaN(y) THEN NaN ELSE IF Lt(x, y) THEN y ELSE x

\* Math.round(x * 100) / 100: Math.round rounds a half up
Round2(x) ==
  IF ~IsFinite(x) THEN x
  ELSE Q((2 * 100 * x.n + x.d) \div (2 * x.d), 100)

-----------------------------------------------------------------------------
(* JavaScript strings *)

\* \s of the regular expressions
SpaceChars == {" ", "\n", "\t"}

IsSpace(c) == c \in SpaceChars

\* [.!?]
Terminators == {".", "!", "?"}

Digits == {"0", "1", "2", "3", "4", "5", "6", "7", "8", "9"}

UpperOf ==
  [c \in {"a", "b", "c", "d", "e", "f", "g", "h", "i", "j", "k", "l", "m", "n",
          "o", "p", "q", "r", "s", "t", "u", "v", "w", "x", "y", "z"} |->
     CASE c = "a" -> "A" [] c = "b" -> "B" [] c = "c" -> "C" [] c = "d" -> "D"
       [] c = "e" -> "E" [] c = "f" -> "F" [] c = "g" -> "G" [] c = "h" -> "H"
       [] c = "i" -> "I" [] c = "j" -> "J" [] c = "k" -> "K" [] c = "l" -> "L"
       [] c = "m" -> "M" [] c = "n" -> "N" [] c = "o" -> "O" [] c = "p" -> "P"
       [] c = "q" -> "Q" [] c = "r" -> "R" [] c = "s" -> "S" [] c = "t" -> "T"
       [] c = "u" -> "U" [] c = "v" -> "V" [] c = "w" -> "W" [] c = "x" -> "X"
       [] c = "y" -> "Y" [] c = "z" -> "Z"]

LowerLetters == DOMAIN UpperOf

UpperLetters == {UpperOf[c] : c \in LowerLetters}

LowerChar(c) ==
  IF c \in UpperLetters THEN CHOOSE l \in LowerLetters : UpperOf[l] = c ELSE c

UpperChar(c) == IF c \in LowerLetters THEN UpperOf[c] ELSE c

\* \w of the regular expressions
WordChars == LowerLetters \cup UpperLetters \cup Digits \cup {"_"}

IsWordChar(c) == c \in WordChars

\* String.prototype.toLowerCase
toLowerCase(s) == [i \in 1..Len(s) |-> LowerChar(s[i])]

\* String.prototype.trim
trim(s) ==
  LET keep == {i \in 1..Len(s) : ~IsSpace(s[i])}
  IN IF keep = {} THEN <<>>
     ELSE LET lo == CHOOSE i \in keep : \A j \in keep : i <= j
              hi == CHOOSE i \in keep : \A j \in keep : j <= i
          IN SubSeq(s, lo, hi)

\* sub occurs in s at position i
MatchesAt(s, sub, i) ==
  /\ i >= 1
  /\ i + Len(sub) - 1 <= Len(s)
  /\ \A k \in 1..Len(sub) : s[i + k - 1] = sub[k]

\* String.prototype.includes
includes(s, sub) == \E i \in 1..(Len(s) + 1) : MatchesAt(s, sub, i)

\* the elements of a set of integers within lo..hi, in increasing order
RECURSIVE Sorted(_, _, _)
Sorted(S, lo, hi) ==
  IF lo > hi THEN <<>>
  ELSE IF lo = hi THEN (IF lo \in S THEN <<lo>> ELSE <<>>)
  ELSE LET mid == (lo + hi) \div 2
       IN Sorted(S, lo, mid) \o Sorted(S, mid + 1, hi)

\* s.split(re) for a regular expression /[class]+/: the pieces between the
\* maximal runs of separator characters, empty first and last pieces included
SplitRuns(s, class) ==
  LET n == Len(s)
      starts == Sorted({1} \cup {i + 1 : i \in {j \in 1..n :
                    s[j] \in class /\ (j = n \/ s[j + 1] \notin class)}}, 1, n + 1)
      pieceEnd(b) ==
        LET seps == {i \in b..n : s[i] \in class}
        IN IF seps = {} THEN n ELSE (CHOOSE i \in seps : \A j \in seps : i <= j) - 1
  IN [k \in 1..Len(starts) |-> SubSeq(s, starts[k], pieceEnd(starts[k]))]

\* s.split(/\s+/)
SplitSpaces(s) == SplitRuns(s, SpaceChars)

\* s.split(/[.!?]+/)
SplitTerminators(s) == SplitRuns(s, Terminators)

NonBlank(s) == Len(trim(s)) > 0

NonEmpty(s) == Len(s) > 0

\* s.split(sep) for a separator string: the pieces between the occurrences of
\* sep, found from left to right without overlap
RECURSIVE SplitOn(_, _)
SplitOn(s, sep) ==
  LET hits == {i \in 1..Len(s) : MatchesAt(s, sep, i)}
  IN IF hits = {} THEN <<s>>
     ELSE LET i == CHOOSE h \in hits : \A j \in hits : h <= j
          IN <<SubSeq(s, 1, i - 1)>> \o SplitOn(SubSeq(s, i + Len(sep), Len(s)), sep)

\* \b between s[p - 1] and s[p]
WordBoundary(s, p) ==
  (p > 1 /\ IsWordChar(s[p - 1])) # (p <= Len(s) /\ IsWordChar(s[p]))

\* length of the match of /(alt1|alt2|...)/ (or /\b(alt)\b/ when bounded) that
\* starts at position i: the first alternative that matches wins; 0 for none
MatchLenAt(s, alts, bounded, i) ==
  IF bounded /\ ~WordBoundary(s, i) THEN 0
  ELSE LET ok == {a \in 1..Len(alts) :
                    /\ MatchesAt(s, alts[a], i)
                    /\ bounded => WordBoundary(s, i + Len(alts[a]))}
       IN IF ok = {} THEN 0 ELSE Len(alts[CHOOSE a \in ok : \A b \in ok : a <= b])

\* (s.match(/.../g) || []).length: matches are taken from left to right and
\* do not overlap
RECURSIVE CountFrom(_, _, _, _)
CountFrom(s, alts, bounded, from) ==
  LET hits == {i \in from..Len(s) : MatchLenAt(s, alts, bounded, i) > 0}
  IN IF hits = {} THEN 0
     ELSE LET i == CHOOSE h \in hits : \A j \in hits : h <= j
          IN 1 + CountFrom(s, alts, bounded, i + MatchLenAt(s, alts, bounded, i))

CountMatches(s, alts, bounded) == CountFrom(s, alts, bounded, 1)

\* the sum of ns[lo..hi]
RECURSIVE SumRange(_, _, _)
SumRange(ns, lo, hi) ==
  IF lo > hi THEN 0
  ELSE IF lo = hi THEN ns[lo]
  ELSE LET mid == (lo + hi) \div 2
       IN SumRange(ns, lo, mid) + SumRange(ns, mid + 1, hi)

SumSeq(ns) == SumRange(ns, 1, Len(ns))

\* the concatenation of a sequence of sequences
RECURSIVE Flatten(_)
Flatten(ss) == IF ss = <<>> THEN <<>> ELSE Head(ss) \o Flatten(Tail(ss))

\* new Set(words.map(w => w.toLowerCase())).size
UniqueLowerCount(words) == Cardinality({toLowerCase(words[i]) : i \in 1..Len(words)})

-----------------------------------------------------------------------------
(* EvaluationDimensions: the dimension analyzers *)

\* /(however|furthermore|moreover|therefore|consequently|in conclusion|in summary)/gi
transitionWordsRe ==
  << <<"h", "o", "w", "e", "v", "e", "r">>,
     <<"f", "u", "r", "t", "h", "e", "r", "m", "o", "r", "e">>,
     <<"m", "o", "r", "e", "o", "v", "e", "r">>,
     <<"t", "h", "e", "r", "e", "f", "o", "r", "e">>,
     <<"c", "o", "n", "s", "e", "q", "u", "e", "n", "t", "l", "y">>,
     <<"i", "n", " ", "c", "o", "n", "c", "l", "u", "s", "i", "o", "n">>,
     <<"i", "n", " ", "s", "u", "m", "m", "a", "r", "y">> >>

creativityWords ==
  << <<"i", "m", "a", "g", "i", "n", "e">>,
     <<"w", "h", "a", "t", " ", "i", "f">>,
     <<"p", "e", "r", "h", "a", "p", "s">>,
     <<"m", "a", "y", "b", "e">>,
     <<"c", "o", "u", "l", "d">>,
     <<"m", "i", "g", "h", "t">>,
     <<"s", "u", "g", "g", "e", "s", "t">>,
     <<"p", "r", "o", "p", "o", "s", "e">>,
     <<"i", "n", "n", "o", "v", "a", "t", "i", "v", "e">>,
     <<"u", "n", "i", "q", "u", "e">> >>

factualClaims ==
  << <<"e", "d", "u", "c", "a", "t", "i", "o", "n", " ", "i", "n", "c", "r", "e", "a", "s", "e", "s", " ", "g", "d", "p">>,
     <<"e", "d", "u", "c", "a", "t", "i", "o", "n", " ", "r", "e", "d", "u", "c", "e", "s", " ", "p", "o", "v", "e", "r", "t", "y">>,
     <<"e", "d", "u", "c", "a", "t", "i", "o", "n", " ", "i", "s", " ", "u", "n", "i", "m", "p", "o", "r", "t", "a", "n", "t">>,
     <<"e", "d", "u", "c", "a", "t", "i", "o", "n", " ", "h", "a", "s", " ", "n", "o", " ", "b", "e", "n", "e", "f", "i", "t", "s">> >>

criticalThinkingIndicators ==
  << <<"b", "e", "c", "a", "u", "s", "e">>,
     <<"t", "h", "e", "r", "e", "f", "o", "r", "e">>,
     <<"t", "h", "u", "s">>,
     <<"c", "o", "n", "s", "e", "q", "u", "e", "n", "t", "l", "y">>,
     <<"a", "s", " ", "a", " ", "r", "e", "s", "u", "l", "t">>,
     <<"h", "o", "w", "e", "v", "e", "r">>,
     <<"a", "l", "t", "h", "o", "u", "g", "h">>,
     <<"n", "e", "v", "e", "r", "t", "h", "e", "l", "e", "s", "s">>,
     <<"o", "n", " ", "t", "h", "e", " ", "o", "t", "h", "e", "r", " ", "h", "a", "n", "d">>,
     <<"s", "u", "g", "g", "e", "s", "t", "s">>,
     <<"i", "n", "d", "i", "c", "a", "t", "e", "s">>,
     <<"d", "e", "m", "o", "n", "s", "t", "r", "a", "t", "e", "s">>,
     <<"i", "m", "p", "l", "i", "e", "s">>,
     <<"s", "h", "o", "w", "s", " ", "t", "h", "a", "t">>,
     <<"i", "n", " ", "c", "o", "n", "t", "r", "a", "s", "t">>,
     <<"c", "o", "m", "p", "a", "r", "e", "d", " ", "t", "o">>,
     <<"s", "i", "m", "i", "l", "a", "r", "l", "y">>,
     <<"u", "n", "l", "i", "k", "e">>,
     <<"w", "h", "e", "r", "e", "a", "s">> >>

evidencePhrases ==
  << <<"r", "e", "s", "e", "a", "r", "c", "h", " ", "s", "h", "o", "w", "s">>,
     <<"s", "t", "u", "d", "i", "e", "s", " ", "i", "n", "d", "i", "c", "a", "t", "e">>,
     <<"a", "c", "c", "o", "r", "d", "i", "n", "g", " ", "t", "o">> >>

analysisIndicatorsRe ==
  << <<"b", "e", "c", "a", "u", "s", "e">>,
     <<"t", "h", "e", "r", "e", "f", "o", "r", "e">>,
     <<"s", "u", "g", "g", "e", "s", "t", "s">>,
     <<"i", "n", "d", "i", "c", "a", "t", "e", "s">>,
     <<"d", "e", "m", "o", "n", "s", "t", "r", "a", "t", "e", "s">>,
     <<"i", "m", "p", "l", "i", "e", "s">> >>

passiveAuxiliaries ==
  << <<"i", "s">>,
     <<"a", "r", "e">>,
     <<"w", "a", "s">>,
     <<"w", "e", "r", "e">>,
     <<"b", "e">>,
     <<"b", "e", "e", "n">>,
     <<"b", "e", "i", "n", "g">> >>

STR_introduction == <<"i", "n", "t", "r", "o", "d", "u", "c", "t", "i", "o", "n">>

STR_conclusion == <<"c", "o", "n", "c", "l", "u", "s", "i", "o", "n">>

STR_paragraphBreak == <<"\n", "\n">>

STR_ed == <<"e", "d">>


\* a decimal literal of the code, in hundredths
Dec(h) == Q(h, 100)

\* sentences.reduce((sum, s) => sum + s.split(/\s+/).length, 0)
SentenceWordTotal(sentences) ==
  SumSeq([i \in 1..Len(sentences) |-> Len(SplitSpaces(sentences[i]))])

Sentences(t) == SelectSeq(SplitTerminators(t), NonBlank)

Paragraphs(t) == SelectSeq(SplitOn(t, STR_paragraphBreak), NonBlank)

Bonus(cond, h) == IF cond THEN Dec(h) ELSE I(0)

Clamp01(x) == MathMin(I(1), MathMax(I(0), x))

analyzeStructure(t, assignmentType) ==
  LET Result(score, details) ==
        [score |-> score,
         feedback |-> <<IF Gt(score, Dec(80)) THEN "Excellent structure with clear organization and flow."
                        ELSE IF Gt(score, Dec(60)) THEN "Good structure, but could benefit from better organization."
                        ELSE "Needs improvement in organization and structure.">>,
         details |-> details]
      Scored(paragraphCount, avgSentenceLength, hasIntroduction, hasConclusion, transitionWords) ==
        Result(Clamp01(Add(Add(Add(Add(Add(Dec(50),
                 Bonus(paragraphCount >= 5, 20)),
                 Bonus(Gt(avgSentenceLength, I(10)) /\ Lt(avgSentenceLength, I(25)), 10)),
                 Bonus(hasIntroduction, 10)),
                 Bonus(hasConclusion, 10)),
                 Bonus(transitionWords >= 3, 10))),
               [paragraphCount |-> paragraphCount,
                avgSentenceLength |-> avgSentenceLength,
                hasIntroduction |-> hasIntroduction,
                hasConclusion |-> hasConclusion,
                transitionWords |-> transitionWords])
      Counted(paragraphs, sentences) ==
        Scored(Len(paragraphs),
               Div(I(SentenceWordTotal(sentences)),
                   I(IF Len(sentences) > 1 THEN Len(sentences) ELSE 1)),
               Len(paragraphs) > 0 /\ includes(toLowerCase(paragraphs[1]), STR_introduction),
               Len(paragraphs) > 0
                 /\ includes(toLowerCase(paragraphs[Len(paragraphs)]), STR_conclusion),
               CountMatches(toLowerCase(t), transitionWordsRe, FALSE))
  IN Counted(Paragraphs(t), Sentences(t))

analyzeCreativity(t, assignmentType) ==
  LET Result(score, details) ==
        [score |-> score,
         feedback |-> <<IF Gt(score, Dec(70)) THEN "Highly creative and original thinking demonstrated."
                        ELSE IF Gt(score, Dec(50)) THEN "Shows some creative elements."
                        ELSE "Could benefit from more creative and original ideas.">>,
         details |-> details]
      Scored(creativityCount, wordDiversity) ==
        Result(Add(Add(Dec(30),
                 MathMin(Dec(30), Mul(I(creativityCount), Dec(5)))),
                 MathMin(Dec(40), Mul(wordDiversity, I(2)))),
               [uniqueWordRatio |-> wordDiversity, creativityWordCount |-> creativityCount])
      Counted(words, lowerText) ==
        Scored(SumSeq([k \in 1..Len(creativityWords) |->
                         CountMatches(lowerText, <<creativityWords[k]>>, TRUE)]),
               Div(I(UniqueLowerCount(words)), I(Len(words))))
  IN Counted(SplitSpaces(t), toLowerCase(t))

analyzeAccuracy(t, assignmentType) ==
  LET Result(score, totalClaims, accurateClaims) ==
        [score |-> score,
         feedback |-> <<IF Gt(score, Dec(90)) THEN "Highly accurate and well-researched content."
                        ELSE IF Gt(score, Dec(70)) THEN "Mostly accurate, but could benefit from more precise information."
                        ELSE IF totalClaims > 0 THEN "Contains some inaccuracies that should be addressed."
                        ELSE "Accuracy assessment not fully applicable.">>,
         details |-> [claimsChecked |-> totalClaims, accurateClaims |-> accurateClaims]]
      Scored(totalClaims, accurateClaims) ==
        Result(IF totalClaims > 0 THEN Div(I(accurateClaims), I(totalClaims)) ELSE Dec(80),
               totalClaims, accurateClaims)
      \* every entry of factualClaims is counted as accurate when it is found:
      \* (isTrue && !isFalse) || (!isTrue && isFalse) holds for all four
      Counted(totalClaims) == Scored(totalClaims, totalClaims)
      Lowered(lowerText) ==
        Counted(Cardinality({k \in 1..Len(factualClaims) : includes(lowerText, factualClaims[k])}))
  IN Lowered(toLowerCase(t))

\* positions where a line starts, for ^ under the m flag
LineStarts(t) == {1} \cup {i + 1 : i \in {j \in 1..Len(t) : t[j] = "\n"}}

\* /^#+\s+.+/m.test(text)
HasHeadings(t) ==
  \E p \in LineStarts(t) : \E h \in p..Len(t) : \E w \in (h + 1)..Len(t) :
     /\ \A i \in p..h : t[i] = "#"
     /\ \A i \in (h + 1)..w : IsSpace(t[i])
     /\ w + 1 <= Len(t) /\ t[w + 1] # "\n"

\* /^\s*[-*•]\s+/m.test(text)
HasBulletPoints(t) ==
  \E p \in LineStarts(t) : \E b \in p..Len(t) :
     /\ \A i \in p..(b - 1) : IsSpace(t[i])
     /\ t[b] \in {"-", "*"}   \* the bullet character U+2022 is not in the model's alphabet
     /\ b + 1 <= Len(t) /\ IsSpace(t[b + 1])

analyzePresentation(t, assignmentType) ==
  LET Result(score, details) ==
        [score |-> score,
         feedback |-> <<IF Gt(score, Dec(80)) THEN "Excellent presentation with good use of formatting and structure."
                        ELSE IF Gt(score, Dec(60)) THEN "Good presentation, but could be enhanced with better formatting."
                        ELSE "Needs improvement in presentation and formatting.">>,
         details |-> details]
      Scored(hasHeadings, hasBulletPoints, avgSentenceLength, paragraphCount, shortParagraphs) ==
        Result(Clamp01(Add(Add(Add(Add(Add(Dec(50),
                 Bonus(hasHeadings, 10)),
                 Bonus(hasBulletPoints, 10)),
                 Bonus(Gt(avgSentenceLength, I(8)) /\ Lt(avgSentenceLength, I(25)), 20)),
                 Bonus(paragraphCount >= 3, 10)),
                 IF shortParagraphs > 1 THEN Neg(Mul(Dec(10), I(shortParagraphs))) ELSE I(0))),
               [hasHeadings |-> hasHeadings,
                hasBulletPoints |-> hasBulletPoints,
                avgSentenceLength |-> avgSentenceLength,
                paragraphCount |-> paragraphCount,
                shortParagraphs |-> shortParagraphs])
      Counted(sentences, paragraphs) ==
        Scored(HasHeadings(t), HasBulletPoints(t),
               Div(I(SentenceWordTotal(sentences)), I(Len(sentences))),
               Len(paragraphs),
               Cardinality({i \in 1..Len(paragraphs) : Len(SplitSpaces(paragraphs[i])) < 15}))
  IN Counted(Sentences(t), Paragraphs(t))

\* /(research shows|studies indicate|according to|\d{4})/i.test(text)
HasEvidence(t) ==
  \/ \E k \in 1..Len(evidencePhrases) : includes(toLowerCase(t), evidencePhrases[k])
  \/ \E i \in 1..(Len(t) - 3) : \A k \in 0..3 : t[i + k] \in Digits

analyzeCriticalThinking(t, assignmentType) ==
  LET Result(score, details) ==
        [score |-> score,
         feedback |-> <<IF Gt(score, Dec(80)) THEN "Excellent critical thinking demonstrated with clear reasoning and evidence."
                        ELSE IF Gt(score, Dec(60)) THEN "Shows good critical thinking, but could benefit from more analysis."
                        ELSE "Needs to develop stronger critical thinking and analytical skills.">>,
         details |-> details]
      Scored(indicatorCount, indicatorDensity, hasEvidence) ==
        Result(Clamp01(Add(Add(Dec(30),
                 IF Gt(indicatorDensity, Dec(80)) THEN Dec(50)
                 ELSE IF Gt(indicatorDensity, Dec(50)) THEN Dec(30)
                 ELSE IF Gt(indicatorDensity, Dec(20)) THEN Dec(10)
                 ELSE I(0)),
                 Bonus(hasEvidence, 20))),
               [indicatorCount |-> indicatorCount,
                indicatorDensity |-> indicatorDensity,
                hasEvidence |-> hasEvidence])
      Counted(sentenceCount, indicatorCount) ==
        Scored(indicatorCount, Div(I(indicatorCount), I(sentenceCount)), HasEvidence(t))
      Lowered(lowerText) ==
        Counted(Len(Sentences(t)),
                SumSeq([k \in 1..Len(criticalThinkingIndicators) |->
                          CountMatches(lowerText, <<criticalThinkingIndicators[k]>>, TRUE)]))
  IN Lowered(toLowerCase(t))

analyzeDepth(t, assignmentType) ==
  LET Result(raw, details) ==
        [score |-> Clamp01(raw),
         feedback |-> <<IF Gt(raw, Dec(80)) THEN "Excellent depth of analysis with thorough exploration of ideas"
                        ELSE IF Gt(raw, Dec(60)) THEN "Good analysis, consider exploring some points in more depth"
                        ELSE "Try to provide more in-depth analysis and explanation of key points">>,
         details |-> details]
      Scored(avgSentenceLength, analysisIndicators, indicatorDensity) ==
        Result(Add(Add(Dec(50),
                 Bonus(Gt(avgSentenceLength, I(15)), 20)),
                 IF Gt(indicatorDensity, Dec(30)) THEN Dec(30)
                 ELSE IF Gt(indicatorDensity, Dec(10)) THEN Dec(15)
                 ELSE I(0)),
               [avgSentenceLength |-> avgSentenceLength,
                analysisIndicators |-> analysisIndicators,
                indicatorDensity |-> indicatorDensity])
      Counted(sentences, analysisIndicators) ==
        Scored(Div(I(SentenceWordTotal(sentences)),
                   I(IF Len(sentences) > 1 THEN Len(sentences) ELSE 1)),
               analysisIndicators,
               Div(I(analysisIndicators), I(IF Len(sentences) # 0 THEN Len(sentences) ELSE 1)))
  IN Counted(Sentences(t), CountMatches(toLowerCase(t), analysisIndicatorsRe, FALSE))

VowelsY == {"a", "e", "i", "o", "u", "y"}

\* word.toLowerCase().split(/[aeiouy]+/).filter(s => s).length
ConsonantGroups(word) == Len(SelectSeq(SplitRuns(toLowerCase(word), VowelsY), NonEmpty))

\* the end of the longest run of characters of a class that starts at p
\* (p - 1 when s[p] is not of the class)
RunEnd(s, p, class) ==
  LET stops == {k \in p..Len(s) : s[k] \notin class}
  IN IF stops = {} THEN Len(s) ELSE (CHOOSE k \in stops : \A j \in stops : k <= j) - 1

\* the end of the match of /\n\s*\n/ that starts at i, 0 when there is none:
\* the last line feed of the white space that follows s[i]
BlankLineEnd(s, i) ==
  IF s[i] # "\n" THEN 0
  ELSE LET feeds == {k \in (i + 1)..RunEnd(s, i + 1, SpaceChars) : s[k] = "\n"}
       IN IF feeds = {} THEN 0 ELSE CHOOSE k \in feeds : \A j \in feeds : j <= k

\* s.split(/\n\s*\n/), from position `from` on
RECURSIVE SplitBlankLinesFrom(_, _)
SplitBlankLinesFrom(s, from) ==
  LET hits == {i \in from..Len(s) : BlankLineEnd(s, i) > 0}
      Cut(i) == <<SubSeq(s, from, i - 1)>> \o SplitBlankLinesFrom(s, BlankLineEnd(s, i) + 1)
  IN IF hits = {} THEN <<SubSeq(s, from, Len(s))>>
     ELSE Cut(CHOOSE h \in hits : \A j \in hits : h <= j)

SplitBlankLines(s) == SplitBlankLinesFrom(s, 1)

\* does aux\s+[a-z]+ed\b match starting at i (s in lower case); the result
\* is the position after the match, 0 for no match.  \s+ and [a-z]+ can only
\* match maximal runs here, and \b holds inside no run of letters.
PassiveEndFor(s, i, aux) ==
  LET p == i + Len(aux)
      w == RunEnd(s, p, SpaceChars)
      e == RunEnd(s, w + 1, LowerLetters)
  IN IF /\ MatchesAt(s, aux, i)
        /\ w >= p
        /\ e - w >= 3
        /\ s[e - 1] = "e" /\ s[e] = "d"
        /\ WordBoundary(s, e + 1)
     THEN e + 1 ELSE 0

\* /(is|are|was|were|be|been|being)\s+[a-z]+ed\b/i starting at i: the first
\* alternative that leads to a match
PassiveEndAt(s, i) ==
  LET ok == {a \in 1..Len(passiveAuxiliaries) : PassiveEndFor(s, i, passiveAuxiliaries[a]) > 0}
  IN IF ok = {} THEN 0
     ELSE PassiveEndFor(s, i, passiveAuxiliaries[CHOOSE a \in ok : \A b \in ok : a <= b])

RECURSIVE PassiveCountFrom(_, _)
PassiveCountFrom(s, from) ==
  LET hits == {i \in from..Len(s) : PassiveEndAt(s, i) > 0}
  IN IF hits = {} THEN 0
     ELSE LET i == CHOOSE h \in hits : \A j \in hits : h <= j
          IN 1 + PassiveCountFrom(s, PassiveEndAt(s, i))

analyzeClarity(t, assignmentType) ==
  LET Result(score, long, complex, passive, details) ==
        [score |-> score,
         feedback |-> <<IF Gt(score, Dec(80)) THEN "Clear and easy to understand"
                        ELSE IF Gt(score, Dec(60)) THEN "Generally clear, but could be improved"
                        ELSE "Work on improving clarity and readability">>
                      \o (IF long THEN <<"Consider breaking up long sentences for better clarity">> ELSE <<>>)
                      \o (IF complex THEN <<"Some complex words could be simplified for better understanding">> ELSE <<>>)
                      \o (IF passive THEN <<"Try to use more active voice for clearer writing">> ELSE <<>>),
         details |-> details]
      Scored(long, complex, passive, details) ==
        Result(Clamp01(Sub(Sub(Sub(I(1), Bonus(long, 20)), Bonus(complex, 20)), Bonus(passive, 10))),
               long, complex, passive, details)
      Measured(avgSentenceLength, complexityRatio, passiveVoice) ==
        Scored(Gt(avgSentenceLength, I(25)), Gt(complexityRatio, Dec(15)), passiveVoice > 3,
               [avgSentenceLength |-> avgSentenceLength,
                complexityRatio |-> complexityRatio,
                passiveVoiceCount |-> passiveVoice])
      Counted(sentences, words) ==
        Measured(Div(I(SentenceWordTotal(sentences)),
                     I(IF Len(sentences) > 1 THEN Len(sentences) ELSE 1)),
                 Div(I(Cardinality({i \in 1..Len(words) : ConsonantGroups(words[i]) >= 3})),
                     I(IF Len(words) > 1 THEN Len(words) ELSE 1)),
                 PassiveCountFrom(toLowerCase(t), 1))
  IN Counted(Sentences(t), SplitSpaces(t))

\* placeholders of the code
analyzeOriginalIdeas(t) == Dec(70)

analyzePersonalVoice(t) == Dec(60)

\* analyzeOriginality without its Math.min(1, ...)
analyzeOriginality_m(t, assignmentType) ==
  [score |-> Add(Add(Dec(50), Mul(analyzeOriginalIdeas(t), Dec(50))),
                 Mul(analyzePersonalVoice(t), Dec(50))),
   feedback |-> <<"Try to develop more original ideas", "Develop your personal voice more">>,
   details |-> [originalIdeas |-> analyzeOriginalIdeas(t),
                personalVoice |-> analyzePersonalVoice(t)]]

analyzeOriginality(t, assignmentType) ==
  LET originalIdeas == analyzeOriginalIdeas(t)
      personalVoice == analyzePersonalVoice(t)
      raw == Add(Add(Dec(50), Mul(originalIdeas, Dec(50))), Mul(personalVoice, Dec(50)))
  IN [score |-> MathMin(I(1), raw),
      feedback |-> <<IF Gt(originalIdeas, Dec(70)) THEN "Shows original thinking and ideas"
                     ELSE "Try to develop more original ideas",
                     IF Gt(personalVoice, Dec(60)) THEN "Good personal voice and style"
                     ELSE "Develop your personal voice more">>,
      details |-> [originalIdeas |-> originalIdeas, personalVoice |-> personalVoice]]

-----------------------------------------------------------------------------
(* EvaluationDimensions: registry, single dimension, overall evaluation *)

\* own keys of this.dimensionAnalyzers
AnalyzerNames ==
  {"structure", "creativity", "accuracy", "presentation", "critical_thinking",
   "originality", "clarity", "depth"}

\* a key that this.dimensionAnalyzers, a plain object, inherits from
\* Object.prototype: the lookup yields a function that is no analyzer
InheritedNames == {"toString"}

\* this.dimensionAnalyzers[name](text, assignmentType), name an own key
Analyze(name, t, assignmentType) ==
  CASE name = "structure" -> analyzeStructure(t, assignmentType)
    [] name = "creativity" -> analyzeCreativity(t, assignmentType)
    [] name = "accuracy" -> analyzeAccuracy(t, assignmentType)
    [] name = "presentation" -> analyzePresentation(t, assignmentType)
    [] name = "critical_thinking" -> analyzeCriticalThinking(t, assignmentType)
    [] name = "originality" -> analyzeOriginality(t, assignmentType)
    [] name = "clarity" -> analyzeClarity(t, assignmentType)
    [] name = "depth" -> analyzeDepth(t, assignmentType)

Returned(v) == [kind |-> "return", value |-> v]

Threw(msg) == [kind |-> "throw", message |-> msg]

\* EvaluationDimensions.evaluateDimension(text, dimension, assignmentType)
evaluateDimension(t, dimension, assignmentType) ==
  IF dimension \in AnalyzerNames THEN Returned(Analyze(dimension, t, assignmentType))
  ELSE IF dimension \in InheritedNames
       \* Object.prototype.toString called as a plain function
       THEN Returned([text |-> "[object Undefined]"])
  ELSE Threw(<<"Unknown evaluation dimension: ", dimension>>)

\* the `dimensions` table of evaluate
EvaluationWeights ==
  << [name |-> "structure", weight |-> Dec(20)],
     [name |-> "creativity", weight |-> Dec(15)],
     [name |-> "accuracy", weight |-> Dec(15)],
     [name |-> "presentation", weight |-> Dec(10)],
     [name |-> "criticalThinking", weight |-> Dec(20)],
     [name |-> "clarity", weight |-> Dec(10)],
     [name |-> "depth", weight |-> Dec(10)] >>

\* minimum expected number of words of evaluate's length penalty
MinWords == 150

\* upper word count of generateOverallFeedback's length note
MaxWords == 1000

IsLowerVowelOrL(c) == c \in {"l", "a", "e", "i", "o", "u", "y"}

\* EvaluationDimensions.countSyllables(word)
EDcountSyllables(word) ==
  LET \* word.match(/[aeiouy]{1,2}/g): every run of r vowels gives ceil(r / 2) matches
      Matched(chunks) == SumSeq([k \in 1..Len(chunks) |-> (Len(chunks[k]) + 1) \div 2])
      Counted(syllables) == IF syllables = 0 THEN 1 ELSE syllables
      \* word.replace(/^y/, '')
      VowelRuns(w2) == SplitRuns(w2, {w2[i] : i \in 1..Len(w2)} \ VowelsY)
      Stripped(w1) ==
        Counted(Matched(VowelRuns(IF Len(w1) >= 1 /\ w1[1] = "y" THEN Tail(w1) ELSE w1)))
      \* word.replace(/(?:[^laeiouy]|ed|[^laeiouy]e)$/, ''): the leftmost match
      Lowered(w0, n) ==
        IF n <= 3 THEN 1
        ELSE Stripped(IF w0[n - 1] = "e" /\ w0[n] = "d" THEN SubSeq(w0, 1, n - 2)
                      ELSE IF ~IsLowerVowelOrL(w0[n - 1]) /\ w0[n] = "e" THEN SubSeq(w0, 1, n - 2)
                      ELSE IF ~IsLowerVowelOrL(w0[n]) THEN SubSeq(w0, 1, n - 1)
                      ELSE w0)
  IN Lowered(toLowerCase(word), Len(word))

\* EvaluationDimensions.calculateReadability(text)
calculateReadability(t) ==
  LET Graded(wordsPerSentence, syllablesPerWord) ==
        MathMax(I(0), MathMin(I(1), Sub(I(1),
          Div(Sub(Add(Mul(Dec(39), wordsPerSentence), Mul(Q(118, 10), syllablesPerWord)),
                  Dec(1559)),
              I(16)))))
      Counted(sentenceCount, words) ==
        IF sentenceCount = 0 \/ Len(words) = 0 THEN I(0)
        ELSE Graded(Div(I(Len(words)), I(sentenceCount)),
                    Div(I(SumSeq([k \in 1..Len(words) |-> EDcountSyllables(words[k])])),
                        I(Len(words))))
  IN Counted(Len(Sentences(t)), SplitSpaces(t))

\* the entries of results.dimensions, in insertion order: the rows of the
\* table whose name is a key of dimensionAnalyzers; the others are skipped
EvaluatedDimensions(t, assignmentType) ==
  LET rows == SelectSeq(EvaluationWeights, LAMBDA row : row.name \in AnalyzerNames)
  IN [k \in 1..Len(rows) |->
        [name |-> rows[k].name, weight |-> rows[k].weight,
         result |-> Analyze(rows[k].name, t, assignmentType)]]

RECURSIVE SumNum(_)
SumNum(xs) == IF xs = <<>> THEN I(0) ELSE Add(Head(xs), SumNum(Tail(xs)))

\* an overall score that leaves out the length penalty
OverallScore_m(entries, wordCount) ==
  LET weightedScoreSum == SumNum([k \in 1..Len(entries) |->
                                    Mul(entries[k].result.score, entries[k].weight)])
      totalWeight == SumNum([k \in 1..Len(entries) |-> entries[k].weight])
      average == IF Gt(totalWeight, I(0)) THEN Div(weightedScoreSum, totalWeight) ELSE I(0)
  IN MathMax(I(0), MathMin(I(1), average))

\* results.overallScore of evaluate: weighted average, length penalty, clamp
OverallScore(entries, wordCount) ==
  LET weightedScoreSum == SumNum([k \in 1..Len(entries) |->
                                    Mul(entries[k].result.score, entries[k].weight)])
      totalWeight == SumNum([k \in 1..Len(entries) |-> entries[k].weight])
      average == IF Gt(totalWeight, I(0)) THEN Div(weightedScoreSum, totalWeight) ELSE I(0)
      lengthPenalty == MathMin(I(1), Div(I(wordCount), I(MinWords)))
  IN MathMax(I(0), MathMin(I(1), Mul(average, lengthPenalty)))

\* dimensionResult.feedback.split('. ')[0] + '.': no feedback text of the
\* analyzers contains '. ', so the first piece is the whole text
FirstSentence(feedback) == feedback \o <<".">>

\* results.strengths of evaluate
Strengths(entries) ==
  LET strong == SelectSeq(entries, LAMBDA e : Gt(e.result.score, Dec(70)))
  IN [k \in 1..Len(strong) |->
        [dimension |-> strong[k].name, score |-> strong[k].result.score,
         feedback |-> FirstSentence(strong[k].result.feedback)]]

\* results.areasForImprovement of evaluate
AreasForImprovement(entries) ==
  LET weak == SelectSeq(entries, LAMBDA e : ~Gt(e.result.score, Dec(70)) /\ Lt(e.result.score, Dec(50)))
  IN [k \in 1..Len(weak) |->
        [dimension |-> weak[k].name, score |-> weak[k].result.score,
         feedback |-> FirstSentence(weak[k].result.feedback)]]

\* (x * 100).toFixed(0) of a finite x >= 0
Percent(x) == (2 * 100 * x.n + x.d) \div (2 * x.d)

\* a line of the overall feedback: a fixed text, or the item
\* `${index + 1}. ${feedback} (${dimension}: ${percent}%)`
Line(head) == [head |-> head, index |-> 0, body |-> <<>>, dimension |-> "", percent |-> 0]

Item(i, entry) ==
  [head |-> "", index |-> i, body |-> entry.feedback, dimension |-> entry.dimension,
   percent |-> Percent(entry.score)]

\* EvaluationDimensions.generateOverallFeedback(results): the lines joined
generateOverallFeedback(overallScore, strengths, areas, wordCount) ==
  <<IF Ge(overallScore, Dec(80)) THEN Line("Excellent work overall!")
    ELSE IF Ge(overallScore, Dec(60)) THEN Line("Good work with room for improvement.")
    ELSE Line("Needs significant improvement.")>>
  \o (IF Len(strengths) > 0
      THEN <<Line("Strengths:")>> \o [i \in 1..Len(strengths) |-> Item(i, strengths[i])]
      ELSE <<>>)
  \o (IF Len(areas) > 0
      THEN <<Line("Areas for Improvement:")>> \o [i \in 1..Len(areas) |-> Item(i, areas[i])]
      ELSE <<>>)
  \o (IF wordCount < MinWords
      THEN <<Line("Note: The essay is quite short. Consider expanding your ideas to reach at least 150 words.")>>
      ELSE IF wordCount > MaxWords
      THEN <<Line("Note: The essay is quite long. Consider being more concise or splitting into multiple sections.")>>
      ELSE <<>>)

\* the `results` object of evaluate, given the word count and the entries of
\* the evaluated dimensions
ResultsOf(t, wordCount, entries, overallScore, strengths, areas) ==
  [dimensions |-> [k \in 1..Len(entries) |->
                     [name |-> entries[k].name, result |-> entries[k].result]],
   overallScore |-> overallScore,
   strengths |-> strengths,
   areasForImprovement |-> areas,
   wordCount |-> wordCount,
   sentenceCount |-> Len(Sentences(t)),
   paragraphCount |-> Len(Paragraphs(t)),
   readabilityScore |-> calculateReadability(t),
   feedback |-> generateOverallFeedback(overallScore, strengths, areas, wordCount)]

Results(t, wordCount, entries) ==
  ResultsOf(t, wordCount, entries, OverallScore(entries, wordCount), Strengths(entries),
            AreasForImprovement(entries))

\* EvaluationDimensions.evaluate(text, assignmentType): the report.  No step
\* of it throws for a string, so the catch blocks are not entered.
evaluate(t, assignmentType) ==
  Results(t, Len(SplitSpaces(t)), EvaluatedDimensions(t, assignmentType))

\* message of the TypeError of text.split for a text that is null
MSG_NullSplit ==
  <<"C", "a", "n", "n", "o", "t", " ", "r", "e", "a", "d", " ", "p", "r", "o", "p", "e", "r",
    "t", "i", "e", "s", " ", "o", "f", " ", "n", "u", "l", "l", " ", "(", "r", "e", "a", "d",
    "i", "n", "g", " ", "'", "s", "p", "l", "i", "t", "'", ")">>

STR_FailedToEvaluate ==
  <<"F", "a", "i", "l", "e", "d", " ", "t", "o", " ", "e", "v", "a", "l", "u", "a", "t", "e",
    " ", "a", "s", "s", "i", "g", "n", "m", "e", "n", "t">>

\* the object that the outer catch block of evaluate returns
FailedEvaluation(message) ==
  [error |-> STR_FailedToEvaluate, details |-> message, overallScore |-> Dec(50)]

\* EvaluationDimensions.evaluate(null, assignmentType): text.split raises a
\* TypeError while `results` is built, inside the outer try block, whose
\* catch block returns an object in place of the report
evaluateNull(assignmentType) == Returned(FailedEvaluation(MSG_NullSplit))

\* FeedbackProcessor.evaluateDimension(text, dimension, assignmentType): it
\* calls evaluationDimensions.evaluate(text, dimension, assignmentType), whose
\* second parameter is the assignment type
FPevaluateDimension(t, dimension, assignmentType) == Returned(evaluate(t, dimension))

-----------------------------------------------------------------------------
(* AssignmentAnalyzer: the analysis by assignment type *)

\* the keys of this.assignmentHandlers
HandlerNames == {"essay", "worksheet", "report", "creative", "analysis", "general"}

\* a key that this.assignmentHandlers inherits from Object.prototype and
\* whose value is an object that is no function
InheritedObjects == {"__proto__"}

\* 'handler is not a function'
MSG_HandlerNotFunction == <<"handler is not a function">>

\* AssignmentAnalyzer.analyzeContent(text)
analyzeContent(t) ==
  [wordCount |-> Len(SplitSpaces(t)),
   sentenceCount |-> Len(SplitTerminators(t)),
   paragraphCount |-> Len(SplitBlankLines(t))]

\* AssignmentAnalyzer.analyzeGeneralOrganization(text)
analyzeGeneralOrganization(t) ==
  LET Scored(paragraphCount) ==
        [score |-> MathMin(I(1), Div(I(paragraphCount), I(3))),
         paragraphCount |-> paragraphCount]
  IN Scored(Len(SelectSeq(SplitBlankLines(t), NonBlank)))

\* AssignmentAnalyzer.analyzeClarity(text)
AAanalyzeClarity(t) ==
  LET Scored(avgWordsPerSentence) ==
        MathMax(I(0), Sub(I(1), Div(Sub(avgWordsPerSentence, I(15)), I(20))))
  IN Scored(Div(I(Len(SplitSpaces(t))), I(Len(Sentences(t)))))

depthWords ==
  <<<<"s", "p", "e", "c", "i", "f", "i", "c", "a", "l", "l", "y">>,
    <<"i", "n", " ", "d", "e", "t", "a", "i", "l">>,
    <<"t", "h", "o", "r", "o", "u", "g", "h", "l", "y">>,
    <<"c", "o", "m", "p", "r", "e", "h", "e", "n", "s", "i", "v", "e">>>>

\* AssignmentAnalyzer.analyzeDepth(text)
AAanalyzeDepth(t) ==
  LET Scored(lowerText) ==
        MathMin(I(1), Div(I(Cardinality({k \in 1..Len(depthWords) :
                                           includes(lowerText, depthWords[k])})), I(2)))
  IN Scored(toLowerCase(t))

\* AssignmentAnalyzer.analyzeGeneral(text)
analyzeGeneral(t) ==
  [type |-> "general",
   content |-> analyzeContent(t),
   organization |-> analyzeGeneralOrganization(t),
   clarity |-> AAanalyzeClarity(t),
   depth |-> AAanalyzeDepth(t),
   overallScore |-> Dec(70),
   strengths |-> <<"Good effort">>,
   improvements |-> <<"Continue developing your ideas">>]

\* words.filter(word => lowerText.includes(word)).length
CountIncluded(lowerText, words) ==
  Cardinality({k \in 1..Len(words) : includes(lowerText, words[k])})

\* Math.abs
MathAbs(x) == [n |-> Abs(x.n), d |-> x.d]

\* 'Cannot read properties of undefined (reading 'toLowerCase')'
MSG_UndefinedToLowerCase ==
  <<"Cannot read properties of undefined (reading 'toLowerCase')">>

\* AssignmentAnalyzer.hasIntroduction(paragraphs[0])
hasIntroduction(paragraphs) ==
  LET introKeywords ==
        <<<<"i", "n", "t", "r", "o", "d", "u", "c", "t", "i", "o", "n">>,
          <<"o", "v", "e", "r", "v", "i", "e", "w">>, <<"p", "u", "r", "p", "o", "s", "e">>,
          <<"a", "i", "m">>, <<"g", "o", "a", "l">>>>
      Has(paragraph) ==
        \/ \E k \in 1..Len(introKeywords) : includes(toLowerCase(paragraph), introKeywords[k])
        \/ Len(paragraph) > 50
  IN paragraphs # <<>> /\ Has(paragraphs[1])

\* AssignmentAnalyzer.hasConclusion(paragraphs[paragraphs.length - 1])
hasConclusion(paragraphs) ==
  LET conclusionKeywords ==
        <<<<"c", "o", "n", "c", "l", "u", "s", "i", "o", "n">>,
          <<"s", "u", "m", "m", "a", "r", "y">>, <<"f", "i", "n", "a", "l", "l", "y">>,
          <<"o", "v", "e", "r", "a", "l", "l">>,
          <<"i", "n", " ", "c", "o", "n", "c", "l", "u", "s", "i", "o", "n">>>>
      Has(paragraph) ==
        \/ \E k \in 1..Len(conclusionKeywords) :
              includes(toLowerCase(paragraph), conclusionKeywords[k])
        \/ Len(paragraph) > 30
  IN paragraphs # <<>> /\ Has(paragraphs[Len(paragraphs)])

\* AssignmentAnalyzer.analyzeEssayStructure(text)
analyzeEssayStructure(t) ==
  LET Scored(hasIntroduction_, hasBody, hasConclusion_, paragraphCount) ==
        [score |-> Add(Add(IF hasIntroduction_ THEN Dec(40) ELSE I(0),
                           IF hasBody THEN Dec(40) ELSE I(0)),
                       IF hasConclusion_ THEN Dec(20) ELSE I(0)),
         hasIntroduction |-> hasIntroduction_,
         hasBody |-> hasBody,
         hasConclusion |-> hasConclusion_,
         paragraphCount |-> paragraphCount]
      Structured(paragraphs) ==
        Scored(hasIntroduction(paragraphs), Len(paragraphs) >= 3, hasConclusion(paragraphs),
               Len(paragraphs))
  IN Structured(SelectSeq(SplitBlankLines(t), NonBlank))

\* AssignmentAnalyzer.analyzeArgumentation(text)
analyzeArgumentation(t) ==
  LET argumentWords ==
        <<<<"a", "r", "g", "u", "e">>, <<"c", "l", "a", "i", "m">>,
          <<"a", "s", "s", "e", "r", "t">>, <<"m", "a", "i", "n", "t", "a", "i", "n">>,
          <<"c", "o", "n", "t", "e", "n", "d">>, <<"p", "r", "o", "p", "o", "s", "e">>>>
      evidenceWords ==
        <<<<"e", "v", "i", "d", "e", "n", "c", "e">>, <<"p", "r", "o", "o", "f">>,
          <<"d", "a", "t", "a">>, <<"r", "e", "s", "e", "a", "r", "c", "h">>,
          <<"s", "t", "u", "d", "y">>, <<"f", "i", "n", "d", "i", "n", "g", "s">>>>
      counterWords ==
        <<<<"h", "o", "w", "e", "v", "e", "r">>, <<"a", "l", "t", "h", "o", "u", "g", "h">>,
          <<"d", "e", "s", "p", "i", "t", "e">>,
          <<"n", "e", "v", "e", "r", "t", "h", "e", "l", "e", "s", "s">>>>
      Scored(argumentCount, evidenceCount, counterCount) ==
        [score |-> MathMin(I(1), Div(I(argumentCount + evidenceCount + counterCount), I(5))),
         argumentCount |-> argumentCount,
         evidenceCount |-> evidenceCount,
         counterCount |-> counterCount]
      Counted(lowerText) ==
        Scored(CountIncluded(lowerText, argumentWords),
               CountIncluded(lowerText, evidenceWords),
               CountIncluded(lowerText, counterWords))
  IN Counted(toLowerCase(t))

\* AssignmentAnalyzer.analyzeEvidence(text): the patterns are matched without
\* regard to case
analyzeEvidence(t) ==
  LET evidencePatterns ==
        <<<<"a", "c", "c", "o", "r", "d", "i", "n", "g", " ", "t", "o">>,
          <<"r", "e", "s", "e", "a", "r", "c", "h", " ", "s", "h", "o", "w", "s">>,
          <<"s", "t", "u", "d", "i", "e", "s", " ", "i", "n", "d", "i", "c", "a", "t", "e">>,
          <<"d", "a", "t", "a", " ", "s", "u", "g", "g", "e", "s", "t", "s">>,
          <<"f", "i", "n", "d", "i", "n", "g", "s", " ", "s", "h", "o", "w">>>>
      Scored(evidenceCount) ==
        [score |-> MathMin(I(1), Div(I(evidenceCount), I(3))), count |-> evidenceCount]
      Counted(lowerText) ==
        Scored(SumSeq([k \in 1..Len(evidencePatterns) |->
                         CountMatches(lowerText, <<evidencePatterns[k]>>, FALSE)]))
  IN Counted(toLowerCase(t))

\* AssignmentAnalyzer.analyzeVocabulary(text)
AAanalyzeVocabulary(t) ==
  LET Counted(words) ==
        [diversity |-> Div(I(UniqueLowerCount(words)), I(Len(words))),
         uniqueWords |-> UniqueLowerCount(words),
         totalWords |-> Len(words)]
  IN Counted(SplitSpaces(t))

\* AssignmentAnalyzer.calculateStyleScore(avgWordsPerSentence, vocabulary)
calculateStyleScore(avgWordsPerSentence, vocabulary) ==
  LET lengthScore ==
        MathMax(I(0), Sub(I(1), Div(MathAbs(Sub(avgWordsPerSentence, I(20))), I(20))))
      vocabScore == MathMin(I(1), Mul(vocabulary.diversity, I(2)))
  IN Div(Add(lengthScore, vocabScore), I(2))

\* AssignmentAnalyzer.analyzeWritingStyle(text)
analyzeWritingStyle(t) ==
  LET Scored(avgWordsPerSentence, vocabulary) ==
        [score |-> calculateStyleScore(avgWordsPerSentence, vocabulary),
         avgWordsPerSentence |-> avgWordsPerSentence,
         vocabulary |-> vocabulary]
  IN Scored(Div(I(Len(SplitSpaces(t))), I(Len(Sentences(t)))), AAanalyzeVocabulary(t))

\* AssignmentAnalyzer.identifyThesis(text)
identifyThesis(t) ==
  LET thesisKeywords ==
        <<<<"t", "h", "e", "s", "i", "s">>, <<"m", "a", "i", "n", " ", "p", "o", "i", "n", "t">>,
          <<"a", "r", "g", "u", "m", "e", "n", "t">>, <<"c", "l", "a", "i", "m">>,
          <<"p", "o", "s", "i", "t", "i", "o", "n">>>>
      Scored(hasThesis) ==
        [score |-> IF hasThesis THEN Dec(80) ELSE Dec(30),
         hasThesis |-> hasThesis,
         location |-> "introduction"]
      Found(firstParagraph) ==
        \E k \in 1..Len(thesisKeywords) : includes(firstParagraph, thesisKeywords[k])
  IN Scored(Found(toLowerCase(SplitBlankLines(t)[1])))

\* AssignmentAnalyzer.analyzeConclusion(text), for a text with a paragraph
\* that is not blank
analyzeConclusion(t) ==
  LET conclusionKeywords ==
        <<<<"c", "o", "n", "c", "l", "u", "s", "i", "o", "n">>,
          <<"s", "u", "m", "m", "a", "r", "y">>, <<"f", "i", "n", "a", "l", "l", "y">>,
          <<"o", "v", "e", "r", "a", "l", "l">>,
          <<"i", "n", " ", "c", "o", "n", "c", "l", "u", "s", "i", "o", "n">>>>
      Scored(hasConclusion_, length) ==
        [score |-> IF hasConclusion_ THEN Dec(80) ELSE Dec(40),
         hasConclusion |-> hasConclusion_,
         length |-> length]
      Found(conclusion) ==
        Scored(\E k \in 1..Len(conclusionKeywords) :
                  includes(toLowerCase(conclusion), conclusionKeywords[k]),
               Len(conclusion))
      Last(paragraphs) == Found(paragraphs[Len(paragraphs)])
  IN Last(SelectSeq(SplitBlankLines(t), NonBlank))

\* let score = 0; Object.keys(weights).forEach(key => score +=
\* analysis[key].score * weights[key]); Math.round(score * 100) / 100,
\* weights given as entries [key, weight] in the order of the keys
RECURSIVE WeightedSum(_, _)
WeightedSum(analysis, weights) ==
  IF weights = <<>> THEN I(0)
  ELSE Add(WeightedSum(analysis, SubSeq(weights, 1, Len(weights) - 1)),
           Mul(analysis[weights[Len(weights)].key].score, weights[Len(weights)].weight))

\* the weights of calculateEssayScore
essayWeights ==
  <<[key |-> "structure", weight |-> Dec(25)],
    [key |-> "argumentation", weight |-> Dec(25)],
    [key |-> "evidence", weight |-> Dec(20)],
    [key |-> "style", weight |-> Dec(15)],
    [key |-> "thesis", weight |-> Dec(10)],
    [key |-> "conclusion", weight |-> Dec(5)]>>

\* calculateEssayScore without the rounding to 2 decimals
calculateEssayScore_m(analysis) == WeightedSum(analysis, essayWeights)

\* AssignmentAnalyzer.calculateEssayScore(analysis)
calculateEssayScore(analysis) == Round2(WeightedSum(analysis, essayWeights))

\* the texts of analysis[key] whose score passes the test, in the order of
\* the if statements; a comparison with NaN is false
Remarks(analysis, rules, above) ==
  LET Holds(rule) ==
        IF above THEN Gt(analysis[rule.key].score, rule.limit)
        ELSE Lt(analysis[rule.key].score, rule.limit)
      kept == SelectSeq(rules, Holds)
  IN [k \in 1..Len(kept) |-> kept[k].text]

\* AssignmentAnalyzer.identifyEssayStrengths(analysis)
identifyEssayStrengths(analysis) ==
  Remarks(analysis,
          <<[key |-> "structure", limit |-> Dec(70), text |-> "Well-structured essay"],
            [key |-> "argumentation", limit |-> Dec(60), text |-> "Strong argumentation"],
            [key |-> "evidence", limit |-> Dec(60), text |-> "Good use of evidence"],
            [key |-> "style", limit |-> Dec(70), text |-> "Clear writing style"],
            [key |-> "thesis", limit |-> Dec(70), text |-> "Clear thesis statement"]>>,
          TRUE)

\* AssignmentAnalyzer.identifyEssayImprovements(analysis)
identifyEssayImprovements(analysis) ==
  Remarks(analysis,
          <<[key |-> "structure", limit |-> Dec(60), text |-> "Improve essay structure"],
            [key |-> "argumentation", limit |-> Dec(50), text |-> "Strengthen argumentation"],
            [key |-> "evidence", limit |-> Dec(50), text |-> "Add more evidence"],
            [key |-> "style", limit |-> Dec(60), text |-> "Improve writing style"],
            [key |-> "thesis", limit |-> Dec(60), text |-> "Clarify thesis statement"]>>,
          FALSE)

\* the object that a handler returns: { ...analysis, overallScore, strengths,
\* improvements }
Graded(analysis, overallScore, strengths, improvements) ==
  [k \in DOMAIN analysis \cup {"overallScore", "strengths", "improvements"} |->
     CASE k = "overallScore" -> overallScore
       [] k = "strengths" -> strengths
       [] k = "improvements" -> improvements
       [] OTHER -> analysis[k]]

\* AssignmentAnalyzer.analyzeEssay(text): analyzeConclusion reads the last
\* paragraph, which is undefined when every paragraph is blank
analyzeEssay(t) ==
  LET Result(analysis) ==
        Returned(Graded(analysis, calculateEssayScore(analysis),
                        identifyEssayStrengths(analysis),
                        identifyEssayImprovements(analysis)))
  IN IF SelectSeq(SplitBlankLines(t), NonBlank) = <<>> THEN Threw(MSG_UndefinedToLowerCase)
     ELSE Result([type |-> "essay",
                  structure |-> analyzeEssayStructure(t),
                  argumentation |-> analyzeArgumentation(t),
                  evidence |-> analyzeEvidence(t),
                  style |-> analyzeWritingStyle(t),
                  thesis |-> identifyThesis(t),
                  conclusion |-> analyzeConclusion(t)])

\* the end of the match of /\d+\./ that starts at i, 0 when there is none
NumberEnd(s, i) ==
  IF s[i] \notin Digits THEN 0
  ELSE IF RunEnd(s, i, Digits) < Len(s) /\ s[RunEnd(s, i, Digits) + 1] = "."
       THEN RunEnd(s, i, Digits) + 1
  ELSE 0

\* s.split(/\d+\./)
RECURSIVE SplitNumbers(_)
SplitNumbers(s) ==
  LET hits == {i \in 1..Len(s) : NumberEnd(s, i) > 0}
  IN IF hits = {} THEN <<s>>
     ELSE LET i == CHOOSE h \in hits : \A j \in hits : h <= j
          IN <<SubSeq(s, 1, i - 1)>> \o SplitNumbers(SubSeq(s, NumberEnd(s, i) + 1, Len(s)))

\* AssignmentAnalyzer.countQuestions(text): (text.match(/\d+\./g) || []).length,
\* the number of separators of the split
countQuestions(t) == Len(SplitNumbers(t)) - 1

\* AssignmentAnalyzer.analyzeCompleteness(text)
analyzeCompleteness(t) ==
  LET Answered(q) == Len(trim(q)) > 10
      Scored(questions) ==
        [score |-> Div(I(Len(SelectSeq(questions, Answered))),
                       I(IF Len(questions) > 1 THEN Len(questions) ELSE 1)),
         totalQuestions |-> Len(questions),
         answeredQuestions |-> Len(SelectSeq(questions, Answered))]
  IN Scored(SelectSeq(SplitNumbers(t), NonBlank))

\* AssignmentAnalyzer.analyzeWorksheetAccuracy(text)
analyzeWorksheetAccuracy(t) ==
  [score |-> Dec(80),
   feedback |-> "Accuracy assessment requires subject-specific knowledge"]

\* AssignmentAnalyzer.analyzeUnderstanding(text)
analyzeUnderstanding(t) ==
  LET understandingWords ==
        <<<<"b", "e", "c", "a", "u", "s", "e">>, <<"t", "h", "e", "r", "e", "f", "o", "r", "e">>,
          <<"s", "i", "n", "c", "e">>, <<"d", "u", "e", " ", "t", "o">>,
          <<"a", "s", " ", "a", " ", "r", "e", "s", "u", "l", "t">>>>
      Scored(understandingCount) ==
        [score |-> MathMin(I(1), Div(I(understandingCount), I(3))), count |-> understandingCount]
  IN Scored(CountIncluded(toLowerCase(t), understandingWords))

\* AssignmentAnalyzer.analyzeEffort(text)
analyzeEffort(t) ==
  LET Scored(wordCount, avgWordsPerAnswer) ==
        [score |-> MathMin(I(1), Div(avgWordsPerAnswer, I(20))),
         wordCount |-> wordCount,
         avgWordsPerAnswer |-> avgWordsPerAnswer]
  IN Scored(Len(SplitSpaces(t)), Div(I(Len(SplitSpaces(t))), I(countQuestions(t))))

\* AssignmentAnalyzer.analyzeWorksheetOrganization(text)
analyzeWorksheetOrganization(t) ==
  LET Scored(hasNumbering, hasClearAnswers) ==
        [score |-> Add(IF hasNumbering THEN Dec(50) ELSE I(0),
                       IF hasClearAnswers THEN Dec(50) ELSE I(0)),
         hasNumbering |-> hasNumbering,
         hasClearAnswers |-> hasClearAnswers]
  IN Scored(\E i \in 1..Len(t) : NumberEnd(t, i) > 0, Len(SplitNumbers(t)) > 1)

\* the weights of calculateWorksheetScore
worksheetWeights ==
  <<[key |-> "completeness", weight |-> Dec(30)],
    [key |-> "accuracy", weight |-> Dec(25)],
    [key |-> "understanding", weight |-> Dec(20)],
    [key |-> "effort", weight |-> Dec(15)],
    [key |-> "organization", weight |-> Dec(10)]>>

\* AssignmentAnalyzer.calculateWorksheetScore(analysis)
calculateWorksheetScore(analysis) == Round2(WeightedSum(analysis, worksheetWeights))

\* AssignmentAnalyzer.identifyWorksheetStrengths(analysis)
identifyWorksheetStrengths(analysis) ==
  Remarks(analysis,
          <<[key |-> "completeness", limit |-> Dec(80), text |-> "Complete responses"],
            [key |-> "understanding", limit |-> Dec(60), text |-> "Good understanding"],
            [key |-> "effort", limit |-> Dec(70), text |-> "Good effort"],
            [key |-> "organization", limit |-> Dec(70), text |-> "Well organized"]>>,
          TRUE)

\* AssignmentAnalyzer.identifyWorksheetImprovements(analysis)
identifyWorksheetImprovements(analysis) ==
  Remarks(analysis,
          <<[key |-> "completeness", limit |-> Dec(60),
             text |-> "Answer all questions completely"],
            [key |-> "understanding", limit |-> Dec(50), text |-> "Show more understanding"],
            [key |-> "effort", limit |-> Dec(60), text |-> "Provide more detailed answers"],
            [key |-> "organization", limit |-> Dec(60), text |-> "Improve organization"]>>,
          FALSE)

\* AssignmentAnalyzer.analyzeWorksheet(text)
analyzeWorksheet(t) ==
  LET Result(analysis) ==
        Returned(Graded(analysis, calculateWorksheetScore(analysis),
                        identifyWorksheetStrengths(analysis),
                        identifyWorksheetImprovements(analysis)))
  IN Result([type |-> "worksheet",
             completeness |-> analyzeCompleteness(t),
             accuracy |-> analyzeWorksheetAccuracy(t),
             understanding |-> analyzeUnderstanding(t),
             effort |-> analyzeEffort(t),
             organization |-> analyzeWorksheetOrganization(t)])

\* AssignmentAnalyzer.analyzeReportStructure(text)
analyzeReportStructure(t) ==
  LET sections ==
        <<<<"i", "n", "t", "r", "o", "d", "u", "c", "t", "i", "o", "n">>,
          <<"m", "e", "t", "h", "o", "d", "o", "l", "o", "g", "y">>,
          <<"r", "e", "s", "u", "l", "t", "s">>,
          <<"d", "i", "s", "c", "u", "s", "s", "i", "o", "n">>,
          <<"c", "o", "n", "c", "l", "u", "s", "i", "o", "n">>>>
      Found(lowerText) ==
        SelectSeq(sections, LAMBDA section : includes(lowerText, section))
      Scored(foundSections) ==
        [score |-> Div(I(Len(foundSections)), I(Len(sections))),
         foundSections |-> foundSections,
         totalSections |-> Len(sections)]
  IN Scored(Found(toLowerCase(t)))

\* AssignmentAnalyzer.analyzeResearch(text)
analyzeResearch(t) ==
  LET researchWords ==
        <<<<"r", "e", "s", "e", "a", "r", "c", "h">>, <<"s", "t", "u", "d", "y">>,
          <<"i", "n", "v", "e", "s", "t", "i", "g", "a", "t", "i", "o", "n">>,
          <<"a", "n", "a", "l", "y", "s", "i", "s">>,
          <<"e", "x", "a", "m", "i", "n", "a", "t", "i", "o", "n">>>>
      Scored(researchCount) ==
        [score |-> MathMin(I(1), Div(I(researchCount), I(3))), count |-> researchCount]
  IN Scored(CountIncluded(toLowerCase(t), researchWords))

\* the end of the match of /\[[\d]+\]|\(\w+\s+\d{4}\)|et al\./i that starts
\* at i, 0 when there is none
CitationEnd(s, i) ==
  LET \* \[[\d]+\]
      Bracketed ==
        IF s[i] = "[" /\ i < Len(s) /\ s[i + 1] \in Digits
            /\ RunEnd(s, i + 1, Digits) < Len(s) /\ s[RunEnd(s, i + 1, Digits) + 1] = "]"
        THEN RunEnd(s, i + 1, Digits) + 1 ELSE 0
      \* \d{4}\) from position p
      Year(p) ==
        IF p + 4 <= Len(s) /\ (\A k \in p..(p + 3) : s[k] \in Digits) /\ s[p + 4] = ")"
        THEN p + 4 ELSE 0
      \* \s+ from position p: the whole run of white space, for a digit follows
      Spaced(p) ==
        IF p <= Len(s) /\ s[p] \in SpaceChars THEN Year(RunEnd(s, p, SpaceChars) + 1) ELSE 0
      \* \(\w+: the whole run of word characters, for white space follows
      Parenthesised ==
        IF s[i] = "(" /\ i < Len(s) /\ IsWordChar(s[i + 1])
        THEN Spaced(RunEnd(s, i + 1, WordChars) + 1) ELSE 0
      EtAl ==
        IF i + 5 <= Len(s) /\ toLowerCase(SubSeq(s, i, i + 5)) = <<"e", "t", " ", "a", "l", ".">>
        THEN i + 5 ELSE 0
  IN IF Bracketed > 0 THEN Bracketed
     ELSE IF Parenthesised > 0 THEN Parenthesised
     ELSE EtAl

\* (text.match(citationPatterns) || []).length from position `from` on
RECURSIVE CountCitations(_, _)
CountCitations(s, from) ==
  LET hits == {i \in from..Len(s) : CitationEnd(s, i) > 0}
  IN IF hits = {} THEN 0
     ELSE LET i == CHOOSE h \in hits : \A j \in hits : h <= j
          IN 1 + CountCitations(s, CitationEnd(s, i) + 1)

\* AssignmentAnalyzer.analyzeCitations(text)
analyzeCitations(t) ==
  LET Scored(count) == [score |-> MathMin(I(1), Div(I(count), I(5))), count |-> count]
  IN Scored(CountCitations(t, 1))

\* AssignmentAnalyzer.analyzeObjectivity(text)
analyzeObjectivity(t) ==
  LET subjectiveWords ==
        <<<<"i", " ", "t", "h", "i", "n", "k">>, <<"i", " ", "b", "e", "l", "i", "e", "v", "e">>,
          <<"i", " ", "f", "e", "e", "l">>,
          <<"i", "n", " ", "m", "y", " ", "o", "p", "i", "n", "i", "o", "n">>>>
      objectiveWords ==
        <<<<"d", "a", "t", "a", " ", "s", "h", "o", "w", "s">>,
          <<"r", "e", "s", "e", "a", "r", "c", "h", " ", "i", "n", "d", "i", "c", "a", "t", "e", "s">>,
          <<"s", "t", "u", "d", "i", "e", "s", " ", "s", "u", "g", "g", "e", "s", "t">>>>
      Scored(subjectiveCount, objectiveCount) ==
        [score |-> MathMin(I(1), Div(I(objectiveCount),
                                     I(subjectiveCount + objectiveCount + 1))),
         subjectiveCount |-> subjectiveCount,
         objectiveCount |-> objectiveCount]
      Counted(lowerText) ==
        Scored(CountIncluded(lowerText, subjectiveWords),
               CountIncluded(lowerText, objectiveWords))
  IN Counted(toLowerCase(t))

\* AssignmentAnalyzer.analyzeMethodology(text)
analyzeMethodology(t) ==
  LET methodWords ==
        <<<<"m", "e", "t", "h", "o", "d">>, <<"p", "r", "o", "c", "e", "d", "u", "r", "e">>,
          <<"p", "r", "o", "c", "e", "s", "s">>, <<"a", "p", "p", "r", "o", "a", "c", "h">>,
          <<"t", "e", "c", "h", "n", "i", "q", "u", "e">>>>
      Scored(methodCount) ==
        [score |-> MathMin(I(1), Div(I(methodCount), I(2))), count |-> methodCount]
  IN Scored(CountIncluded(toLowerCase(t), methodWords))

\* AssignmentAnalyzer.analyzeFindings(text)
analyzeFindings(t) ==
  LET findingWords ==
        <<<<"f", "o", "u", "n", "d">>, <<"d", "i", "s", "c", "o", "v", "e", "r", "e", "d">>,
          <<"r", "e", "v", "e", "a", "l", "e", "d">>, <<"s", "h", "o", "w", "e", "d">>,
          <<"i", "n", "d", "i", "c", "a", "t", "e", "d">>>>
      Scored(findingCount) ==
        [score |-> MathMin(I(1), Div(I(findingCount), I(2))), count |-> findingCount]
  IN Scored(CountIncluded(toLowerCase(t), findingWords))

\* the weights of calculateReportScore
reportWeights ==
  <<[key |-> "structure", weight |-> Dec(20)],
    [key |-> "research", weight |-> Dec(20)],
    [key |-> "citations", weight |-> Dec(15)],
    [key |-> "objectivity", weight |-> Dec(15)],
    [key |-> "methodology", weight |-> Dec(15)],
    [key |-> "findings", weight |-> Dec(15)]>>

\* AssignmentAnalyzer.calculateReportScore(analysis)
calculateReportScore(analysis) == Round2(WeightedSum(analysis, reportWeights))

\* AssignmentAnalyzer.identifyReportStrengths(analysis)
identifyReportStrengths(analysis) ==
  Remarks(analysis,
          <<[key |-> "structure", limit |-> Dec(70), text |-> "Well-structured report"],
            [key |-> "research", limit |-> Dec(60), text |-> "Good research foundation"],
            [key |-> "citations", limit |-> Dec(60), text |-> "Proper citations"],
            [key |-> "objectivity", limit |-> Dec(70), text |-> "Objective presentation"]>>,
          TRUE)

\* AssignmentAnalyzer.identifyReportImprovements(analysis)
identifyReportImprovements(analysis) ==
  Remarks(analysis,
          <<[key |-> "structure", limit |-> Dec(60), text |-> "Improve report structure"],
            [key |-> "research", limit |-> Dec(50), text |-> "Strengthen research"],
            [key |-> "citations", limit |-> Dec(50), text |-> "Add more citations"],
            [key |-> "objectivity", limit |-> Dec(60), text |-> "Maintain objectivity"]>>,
          FALSE)

\* AssignmentAnalyzer.analyzeReport(text)
analyzeReport(t) ==
  LET Result(analysis) ==
        Returned(Graded(analysis, calculateReportScore(analysis),
                        identifyReportStrengths(analysis),
                        identifyReportImprovements(analysis)))
  IN Result([type |-> "report",
             structure |-> analyzeReportStructure(t),
             research |-> analyzeResearch(t),
             citations |-> analyzeCitations(t),
             objectivity |-> analyzeObjectivity(t),
             methodology |-> analyzeMethodology(t),
             findings |-> analyzeFindings(t)])

\* AssignmentAnalyzer.analyzeCreativity(text)
AAanalyzeCreativity(t) ==
  LET creativeWords ==
        <<<<"i", "m", "a", "g", "i", "n", "e">>, <<"c", "r", "e", "a", "t", "i", "v", "e">>,
          <<"u", "n", "i", "q", "u", "e">>, <<"o", "r", "i", "g", "i", "n", "a", "l">>,
          <<"i", "n", "n", "o", "v", "a", "t", "i", "v", "e">>>>
      Scored(creativeCount) ==
        [score |-> MathMin(I(1), Div(I(creativeCount), I(3))), count |-> creativeCount]
  IN Scored(CountIncluded(toLowerCase(t), creativeWords))

\* AssignmentAnalyzer.analyzeVoice(text)
analyzeVoice(t) ==
  LET personalWords == <<<<"i">>, <<"m", "y">>, <<"m", "e">>, <<"w", "e">>, <<"o", "u", "r">>>>
      Personal(word) == \E k \in 1..Len(personalWords) : toLowerCase(word) = personalWords[k]
      Scored(personalCount, totalWords) ==
        [score |-> MathMin(I(1), Mul(Div(I(personalCount), I(totalWords)), I(10))),
         personalCount |-> personalCount,
         totalWords |-> totalWords]
      Counted(words) == Scored(Len(SelectSeq(words, Personal)), Len(words))
  IN Counted(SplitSpaces(t))

\* AssignmentAnalyzer.analyzeImagery(text)
analyzeImagery(t) ==
  LET sensoryWords ==
        <<<<"s", "a", "w">>, <<"h", "e", "a", "r", "d">>, <<"f", "e", "l", "t">>,
          <<"s", "m", "e", "l", "l", "e", "d">>, <<"t", "a", "s", "t", "e", "d">>,
          <<"b", "r", "i", "g", "h", "t">>, <<"l", "o", "u", "d">>, <<"s", "o", "f", "t">>,
          <<"s", "w", "e", "e", "t">>>>
      Scored(sensoryCount) ==
        [score |-> MathMin(I(1), Div(I(sensoryCount), I(5))), count |-> sensoryCount]
  IN Scored(CountIncluded(toLowerCase(t), sensoryWords))

\* AssignmentAnalyzer.analyzeDialogue(text): the matches of /"[^"]*"/g run
\* from one quotation mark to the next, so they pair the marks off from the
\* left
analyzeDialogue(t) ==
  LET Scored(count) == [score |-> MathMin(I(1), Div(I(count), I(3))), count |-> count]
  IN Scored(Cardinality({i \in 1..Len(t) : t[i] = "\""}) \div 2)

\* AssignmentAnalyzer.analyzePlot(text)
analyzePlot(t) ==
  LET plotWords ==
        <<<<"b", "e", "g", "i", "n", "n", "i", "n", "g">>, <<"m", "i", "d", "d", "l", "e">>,
          <<"e", "n", "d">>, <<"c", "o", "n", "f", "l", "i", "c", "t">>,
          <<"r", "e", "s", "o", "l", "u", "t", "i", "o", "n">>, <<"c", "l", "i", "m", "a", "x">>>>
      Scored(plotCount) ==
        [score |-> MathMin(I(1), Div(I(plotCount), I(3))), count |-> plotCount]
  IN Scored(CountIncluded(toLowerCase(t), plotWords))

\* AssignmentAnalyzer.analyzeCharacter(text)
analyzeCharacter(t) ==
  LET characterWords ==
        <<<<"c", "h", "a", "r", "a", "c", "t", "e", "r">>,
          <<"p", "r", "o", "t", "a", "g", "o", "n", "i", "s", "t">>, <<"h", "e", "r", "o">>,
          <<"v", "i", "l", "l", "a", "i", "n">>,
          <<"p", "e", "r", "s", "o", "n", "a", "l", "i", "t", "y">>>>
      Scored(characterCount) ==
        [score |-> MathMin(I(1), Div(I(characterCount), I(2))), count |-> characterCount]
  IN Scored(CountIncluded(toLowerCase(t), characterWords))

\* the weights of calculateCreativeScore
creativeWeights ==
  <<[key |-> "creativity", weight |-> Dec(25)],
    [key |-> "voice", weight |-> Dec(20)],
    [key |-> "imagery", weight |-> Dec(20)],
    [key |-> "dialogue", weight |-> Dec(15)],
    [key |-> "plot", weight |-> Dec(10)],
    [key |-> "character", weight |-> Dec(10)]>>

\* AssignmentAnalyzer.calculateCreativeScore(analysis)
calculateCreativeScore(analysis) == Round2(WeightedSum(analysis, creativeWeights))

\* AssignmentAnalyzer.identifyCreativeStrengths(analysis)
identifyCreativeStrengths(analysis) ==
  Remarks(analysis,
          <<[key |-> "creativity", limit |-> Dec(60), text |-> "Creative expression"],
            [key |-> "voice", limit |-> Dec(60), text |-> "Strong personal voice"],
            [key |-> "imagery", limit |-> Dec(60), text |-> "Good use of imagery"],
            [key |-> "dialogue", limit |-> Dec(60), text |-> "Effective dialogue"]>>,
          TRUE)

\* AssignmentAnalyzer.identifyCreativeImprovements(analysis)
identifyCreativeImprovements(analysis) ==
  Remarks(analysis,
          <<[key |-> "creativity", limit |-> Dec(50), text |-> "Develop more creativity"],
            [key |-> "voice", limit |-> Dec(50), text |-> "Strengthen personal voice"],
            [key |-> "imagery", limit |-> Dec(50), text |-> "Add more sensory details"],
            [key |-> "dialogue", limit |-> Dec(50), text |-> "Include more dialogue"]>>,
          FALSE)

\* AssignmentAnalyzer.analyzeCreative(text)
analyzeCreative(t) ==
  LET Result(analysis) ==
        Returned(Graded(analysis, calculateCreativeScore(analysis),
                        identifyCreativeStrengths(analysis),
                        identifyCreativeImprovements(analysis)))
  IN Result([type |-> "creative",
             creativity |-> AAanalyzeCreativity(t),
             voice |-> analyzeVoice(t),
             imagery |-> analyzeImagery(t),
             dialogue |-> analyzeDialogue(t),
             plot |-> analyzePlot(t),
             character |-> analyzeCharacter(t)])

\* AssignmentAnalyzer.analyzeCriticalThinking(text)
AAanalyzeCriticalThinking(t) ==
  LET criticalWords ==
        <<<<"a", "n", "a", "l", "y", "z", "e">>, <<"e", "v", "a", "l", "u", "a", "t", "e">>,
          <<"c", "r", "i", "t", "i", "q", "u", "e">>, <<"e", "x", "a", "m", "i", "n", "e">>,
          <<"a", "s", "s", "e", "s", "s">>, <<"c", "o", "m", "p", "a", "r", "e">>>>
      Scored(criticalCount) ==
        [score |-> MathMin(I(1), Div(I(criticalCount), I(3))), count |-> criticalCount]
  IN Scored(CountIncluded(toLowerCase(t), criticalWords))

\* AssignmentAnalyzer.analyzeInterpretation(text)
analyzeInterpretation(t) ==
  LET interpretWords ==
        <<<<"i", "n", "t", "e", "r", "p", "r", "e", "t">>,
          <<"u", "n", "d", "e", "r", "s", "t", "a", "n", "d">>,
          <<"m", "e", "a", "n", "i", "n", "g">>,
          <<"s", "i", "g", "n", "i", "f", "i", "c", "a", "n", "c", "e">>,
          <<"i", "m", "p", "l", "y">>>>
      Scored(interpretCount) ==
        [score |-> MathMin(I(1), Div(I(interpretCount), I(2))), count |-> interpretCount]
  IN Scored(CountIncluded(toLowerCase(t), interpretWords))

\* AssignmentAnalyzer.analyzeEvaluation(text)
analyzeEvaluation(t) ==
  LET evalWords ==
        <<<<"e", "v", "a", "l", "u", "a", "t", "e">>, <<"j", "u", "d", "g", "e">>,
          <<"a", "s", "s", "e", "s", "s">>, <<"r", "a", "t", "e">>, <<"v", "a", "l", "u", "e">>,
          <<"w", "o", "r", "t", "h">>>>
      Scored(evalCount) ==
        [score |-> MathMin(I(1), Div(I(evalCount), I(2))), count |-> evalCount]
  IN Scored(CountIncluded(toLowerCase(t), evalWords))

\* AssignmentAnalyzer.analyzeSynthesis(text)
analyzeSynthesis(t) ==
  LET synthesisWords ==
        <<<<"s", "y", "n", "t", "h", "e", "s", "i", "z", "e">>,
          <<"c", "o", "m", "b", "i", "n", "e">>, <<"i", "n", "t", "e", "g", "r", "a", "t", "e">>,
          <<"m", "e", "r", "g", "e">>, <<"u", "n", "i", "f", "y">>>>
      Scored(synthesisCount) ==
        [score |-> MathMin(I(1), Div(I(synthesisCount), I(2))), count |-> synthesisCount]
  IN Scored(CountIncluded(toLowerCase(t), synthesisWords))

\* the weights of calculateAnalysisScore
analysisWeights ==
  <<[key |-> "criticalThinking", weight |-> Dec(25)],
    [key |-> "evidence", weight |-> Dec(20)],
    [key |-> "interpretation", weight |-> Dec(20)],
    [key |-> "evaluation", weight |-> Dec(15)],
    [key |-> "synthesis", weight |-> Dec(10)],
    [key |-> "argumentation", weight |-> Dec(10)]>>

\* AssignmentAnalyzer.calculateAnalysisScore(analysis)
calculateAnalysisScore(analysis) == Round2(WeightedSum(analysis, analysisWeights))

\* AssignmentAnalyzer.identifyAnalysisStrengths(analysis)
identifyAnalysisStrengths(analysis) ==
  Remarks(analysis,
          <<[key |-> "criticalThinking", limit |-> Dec(60),
             text |-> "Strong critical thinking"],
            [key |-> "evidence", limit |-> Dec(60), text |-> "Good use of evidence"],
            [key |-> "interpretation", limit |-> Dec(60), text |-> "Good interpretation"],
            [key |-> "evaluation", limit |-> Dec(60), text |-> "Effective evaluation"]>>,
          TRUE)

\* AssignmentAnalyzer.identifyAnalysisImprovements(analysis)
identifyAnalysisImprovements(analysis) ==
  Remarks(analysis,
          <<[key |-> "criticalThinking", limit |-> Dec(50),
             text |-> "Develop critical thinking"],
            [key |-> "evidence", limit |-> Dec(50), text |-> "Use more evidence"],
            [key |-> "interpretation", limit |-> Dec(50), text |-> "Improve interpretation"],
            [key |-> "evaluation", limit |-> Dec(50), text |-> "Strengthen evaluation"]>>,
          FALSE)

\* AssignmentAnalyzer.analyzeAnalysis(text)
analyzeAnalysis(t) ==
  LET Result(analysis) ==
        Returned(Graded(analysis, calculateAnalysisScore(analysis),
                        identifyAnalysisStrengths(analysis),
                        identifyAnalysisImprovements(analysis)))
  IN Result([type |-> "analysis",
             criticalThinking |-> AAanalyzeCriticalThinking(t),
             evidence |-> analyzeEvidence(t),
             interpretation |-> analyzeInterpretation(t),
             evaluation |-> analyzeEvaluation(t),
             synthesis |-> analyzeSynthesis(t),
             argumentation |-> analyzeArgumentation(t)])

\* this.assignmentHandlers[name](text), name an own key
Handle(name, t) ==
  CASE name = "essay" -> analyzeEssay(t)
    [] name = "worksheet" -> analyzeWorksheet(t)
    [] name = "report" -> analyzeReport(t)
    [] name = "creative" -> analyzeCreative(t)
    [] name = "analysis" -> analyzeAnalysis(t)
    [] name = "general" -> Returned(analyzeGeneral(t))

\* AssignmentAnalyzer.analyzeByType(text, assignmentType):
\* this.assignmentHandlers[assignmentType] || this.assignmentHandlers.general
analyzeByType(t, assignmentType) ==
  IF assignmentType \in HandlerNames THEN Handle(assignmentType, t)
  ELSE IF assignmentType \in InheritedNames
       \* Object.prototype.toString called as a plain function
       THEN Returned([text |-> "[object Undefined]"])
  ELSE IF assignmentType \in InheritedObjects THEN Threw(MSG_HandlerNotFunction)
  ELSE Returned(analyzeGeneral(t))

-----------------------------------------------------------------------------
(* FeedbackProcessor: texts of the messages *)

\* 'No files provided for processing'
MSG_NoFilesProvided ==
  <<"N", "o", " ", "f", "i", "l", "e", "s", " ", "p", "r", "o", "v", "i", "d", "e", "d", " ",
    "f", "o", "r", " ", "p", "r", "o", "c", "e", "s", "s", "i", "n", "g">>

\* 'No file provided for processing'
MSG_NoFileProvided ==
  <<"N", "o", " ", "f", "i", "l", "e", " ", "p", "r", "o", "v", "i", "d", "e", "d", " ", "f",
    "o", "r", " ", "p", "r", "o", "c", "e", "s", "s", "i", "n", "g">>

\* 'File appears to be empty'
MSG_FileEmpty ==
  <<"F", "i", "l", "e", " ", "a", "p", "p", "e", "a", "r", "s", " ", "t", "o", " ", "b", "e",
    " ", "e", "m", "p", "t", "y">>

\* `Could not process file: ${error.message}`, the prefix
MSG_CouldNotProcess ==
  <<"C", "o", "u", "l", "d", " ", "n", "o", "t", " ", "p", "r", "o", "c", "e", "s", "s", " ",
    "f", "i", "l", "e", ":", " ">>

\* `Failed to read file content: ${error.message}`, the prefix
MSG_FailedToRead ==
  <<"F", "a", "i", "l", "e", "d", " ", "t", "o", " ", "r", "e", "a", "d", " ", "f", "i", "l",
    "e", " ", "c", "o", "n", "t", "e", "n", "t", ":", " ">>

\* message of the rejection of fs.readFile for a path that cannot be read
MSG_ENOENT ==
  <<"E", "N", "O", "E", "N", "T", ":", " ", "n", "o", " ", "s", "u", "c", "h", " ", "f", "i",
    "l", "e", " ", "o", "r", " ", "d", "i", "r", "e", "c", "t", "o", "r", "y">>

\* message of the TypeError of reading a property of null
MSG_NullProperty ==
  <<"C", "a", "n", "n", "o", "t", " ", "r", "e", "a", "d", " ", "p", "r", "o", "p", "e", "r",
    "t", "i", "e", "s", " ", "o", "f", " ", "n", "u", "l", "l", " ", "(", "r", "e", "a", "d",
    "i", "n", "g", " ", "'", "o", "r", "i", "g", "i", "n", "a", "l", "n", "a", "m", "e", "'",
    ")">>

\* message of the TypeError of calling match on a value that is no string
MSG_MatchNotFunction ==
  <<"f", "i", "l", "e", "n", "a", "m", "e", ".", "m", "a", "t", "c", "h", " ", "i", "s", " ",
    "n", "o", "t", " ", "a", " ", "f", "u", "n", "c", "t", "i", "o", "n">>

\* `file-${index + 1}`, the prefix
STR_filePrefix ==
  <<"f", "i", "l", "e", "-">>

\* 'Unknown Student'
STR_UnknownStudent ==
  <<"U", "n", "k", "n", "o", "w", "n", " ", "S", "t", "u", "d", "e", "n", "t">>

-----------------------------------------------------------------------------
(* FeedbackProcessor: one submission, one batch iteration *)

\* a JavaScript value read as a name: a string, a number (chars are its
\* digits) or undefined; an empty string is falsy as undefined is
Str(chars) == [type |-> "string", chars |-> chars]

Num(chars) == [type |-> "number", chars |-> chars]

Undefined == [type |-> "undefined", chars |-> <<>>]

Truthy(v) == v.type # "undefined" /\ v.chars # <<>>

\* an entry of `files`: the fields the processor reads.  present is FALSE for
\* a null entry; buffer, content and text are strings (<<>> when absent),
\* disk is what the file system holds at file.path and readable says whether
\* fs.readFile succeeds
FileObject(originalname, name) ==
  [present |-> TRUE, originalname |-> originalname, name |-> name,
   hasBuffer |-> FALSE, buffer |-> <<>>, hasPath |-> FALSE, readable |-> FALSE,
   disk |-> <<>>, content |-> <<>>, text |-> <<>>]

NullEntry == [FileObject(Undefined, Undefined) EXCEPT !.present = FALSE]

DigitChar == <<"0", "1", "2", "3", "4", "5", "6", "7", "8", "9">>

\* String(n) of an integer n >= 0
RECURSIVE NumberToString(_)
NumberToString(n) ==
  IF n < 10 THEN <<DigitChar[n + 1]>>
  ELSE NumberToString(n \div 10) \o <<DigitChar[(n % 10) + 1]>>

\* fileInfo.name: file.originalname || file.name || `file-${index + 1}`
FileInfoName(file, index) ==
  IF Truthy(file.originalname) THEN file.originalname
  ELSE IF Truthy(file.name) THEN file.name
  ELSE Str(STR_filePrefix \o NumberToString(index + 1))

\* [A-Za-z\s]
NameChars == LowerLetters \cup UpperLetters \cup SpaceChars

IsNameChar(c) == c \in NameChars

\* FeedbackProcessor.extractStudentName(filename): the first run of letters
\* and white space, trimmed
extractStudentName(filename) ==
  IF filename.type # "string" THEN Threw(MSG_MatchNotFunction)
  ELSE LET chars == filename.chars
           hits == {i \in 1..Len(chars) : IsNameChar(chars[i])}
       IN IF hits = {} THEN Returned(STR_UnknownStudent)
          ELSE LET i == CHOOSE h \in hits : \A j \in hits : h <= j
               IN Returned(trim(SubSeq(chars, i, RunEnd(chars, i, NameChars))))

\* [^laeiouy]
NotVowelOrL(c) == c \notin {"l", "a", "e", "i", "o", "u", "y"}

\* FeedbackProcessor.countSyllables(word)
FPcountSyllables(word) ==
  LET \* word.match(/[aeiouy]{1,2}/g): every run of r vowels gives ceil(r / 2) matches
      Matched(chunks) == SumSeq([k \in 1..Len(chunks) |-> (Len(chunks[k]) + 1) \div 2])
      Counted(matches) == IF matches = 0 THEN 1 ELSE matches
      VowelRuns(w2) == SplitRuns(w2, {w2[i] : i \in 1..Len(w2)} \ VowelsY)
      \* word.replace(/^y/, '')
      Stripped(w1) ==
        Counted(Matched(VowelRuns(IF Len(w1) >= 1 /\ w1[1] = "y" THEN Tail(w1) ELSE w1)))
      \* word.replace(/(?:[^laeiouy]es|ed|[^laeiouy]e)$/, ''): the leftmost match
      Lowered(w0, n) ==
        IF n <= 3 THEN 1
        ELSE Stripped(IF NotVowelOrL(w0[n - 2]) /\ w0[n - 1] = "e" /\ w0[n] = "s"
                      THEN SubSeq(w0, 1, n - 3)
                      ELSE IF w0[n - 1] = "e" /\ w0[n] = "d" THEN SubSeq(w0, 1, n - 2)
                      ELSE IF NotVowelOrL(w0[n - 1]) /\ w0[n] = "e" THEN SubSeq(w0, 1, n - 2)
                      ELSE w0)
  IN Lowered(toLowerCase(word), Len(word))

\* FeedbackProcessor.calculateAvgSyllables(words)
calculateAvgSyllables(words) ==
  Div(I(SumSeq([k \in 1..Len(words) |-> FPcountSyllables(words[k])])), I(Len(words)))

\* most words of a sentence that is no run-on
MaxSentenceWords == 30

\* an entry of the issues of identifyGrammarIssues
GrammarIssue(type, sentence, issue, suggestion) ==
  [type |-> type, sentence |-> sentence, issue |-> issue, suggestion |-> suggestion]

\* textAnalysis.grammarIssues.slice(0, 5)
MaxIssuesShown == 5

\* the issues of a sentence, with a run-on test that is off by one:
\* words.length >= 30
SentenceIssues_m(sentence, index) ==
  LET Checked(trimmed) ==
        IF Len(trimmed) = 0 THEN <<>>
        ELSE (IF trimmed[1] # UpperChar(trimmed[1])
              THEN <<GrammarIssue("capitalization", index + 1,
                                  "Sentence should start with a capital letter",
                                  "Capitalize the first letter of the sentence")>>
              ELSE <<>>)
             \o (IF Len(SplitSpaces(trimmed)) >= MaxSentenceWords
                 THEN <<GrammarIssue("run-on", index + 1,
                                     "Sentence may be too long",
                                     "Consider breaking into shorter sentences")>>
                 ELSE <<>>)
  IN Checked(trim(sentence))

\* the issues of one piece of text.split(/[.!?]+/), index counted from 0
SentenceIssues(sentence, index) ==
  LET Checked(trimmed) ==
        IF Len(trimmed) = 0 THEN <<>>
        ELSE (IF trimmed[1] # UpperChar(trimmed[1])
              THEN <<GrammarIssue("capitalization", index + 1,
                                  "Sentence should start with a capital letter",
                                  "Capitalize the first letter of the sentence")>>
              ELSE <<>>)
             \o (IF Len(SplitSpaces(trimmed)) > MaxSentenceWords
                 THEN <<GrammarIssue("run-on", index + 1,
                                     "Sentence may be too long",
                                     "Consider breaking into shorter sentences")>>
                 ELSE <<>>)
  IN Checked(trim(sentence))

\* FeedbackProcessor.identifyGrammarIssues(text)
identifyGrammarIssues(t) ==
  LET Listed(sentences) ==
        Flatten([k \in 1..Len(sentences) |-> SentenceIssues(sentences[k], k - 1)])
  IN Listed(SplitTerminators(t))

\* FeedbackProcessor.analyzeVocabulary(words)
analyzeVocabulary(words) ==
  LET Counted(uniqueWords, totalWords) ==
        [uniqueWords |-> uniqueWords, totalWords |-> totalWords,
         diversity |-> Round2(Div(I(uniqueWords), I(totalWords)))]
  IN Counted(UniqueLowerCount(words), Len(words))

\* FeedbackProcessor.analyzeText(text).  The field sentiment, the output of
\* the package `sentiment` for the text, is left out.
analyzeText(t) ==
  LET Measured(words, sentenceCount, paragraphCount, avgWordsPerSentence, avgSyllablesPerWord) ==
        [wordCount |-> Len(words),
         sentenceCount |-> sentenceCount,
         paragraphCount |-> paragraphCount,
         avgWordsPerSentence |-> Round2(avgWordsPerSentence),
         avgWordsPerParagraph |-> Round2(Div(I(Len(words)), I(paragraphCount))),
         readabilityScore |->
           Round2(Sub(Sub(Q(206835, 1000), Mul(Q(1015, 1000), avgWordsPerSentence)),
                      Mul(Q(846, 10), avgSyllablesPerWord))),
         grammarIssues |-> identifyGrammarIssues(t),
         vocabulary |-> analyzeVocabulary(words)]
      Counted(words, sentenceCount, paragraphCount) ==
        Measured(words, sentenceCount, paragraphCount,
                 Div(I(Len(words)), I(sentenceCount)), calculateAvgSyllables(words))
  IN Counted(SelectSeq(SplitSpaces(t), NonEmpty), Len(Sentences(t)),
             Len(SelectSeq(SplitBlankLines(t), NonBlank)))

\* feedbackMap of generateFeedbackSuggestions
feedbackMap ==
  [structure |->
     [high |-> "Your essay structure needs significant improvement. Focus on clear organization with distinct introduction, body, and conclusion sections.",
      medium |-> "Your structure is good but could be more effective with better paragraph organization and transitions.",
      specific |-> "Consider using topic sentences and transition words to improve flow."],
   creativity |->
     [high |-> "Try to include more original ideas and unique perspectives in your work.",
      medium |-> "Good start on creativity, but push yourself to think more outside the box.",
      specific |-> "Consider using more varied vocabulary and unique examples."],
   accuracy |->
     [high |-> "Review your facts and ensure all information is accurate and properly cited.",
      medium |-> "Most information is accurate, but some details need verification.",
      specific |-> "Check your sources and citations for accuracy."],
   presentation |->
     [high |-> "Pay close attention to formatting, grammar, and overall presentation quality.",
      medium |-> "Good presentation overall, but some areas need polishing.",
      specific |-> "Review your work for consistent formatting and grammar."],
   criticalThinking |->
     [high |-> "Develop stronger analytical skills by examining issues from multiple perspectives.",
      medium |-> "Good analysis, but try to explore counterarguments more thoroughly.",
      specific |-> "Consider alternative viewpoints and their implications."],
   clarity |->
     [high |-> "Work on making your writing clearer and more concise.",
      medium |-> "Your writing is generally clear but could be more direct in places.",
      specific |-> "Simplify complex sentences and define technical terms."],
   depth |->
     [high |-> "Your analysis needs more depth and detail to fully develop your ideas.",
      medium |-> "Good analysis, but some points could be explored more thoroughly.",
      specific |-> "Provide more examples and evidence to support your arguments."]]

\* dimension.charAt(0).toUpperCase() + dimension.slice(1), for the keys of
\* feedbackMap and the names of the registered dimensions
Category(dimension) ==
  CASE dimension = "structure" -> "Structure"
    [] dimension = "creativity" -> "Creativity"
    [] dimension = "accuracy" -> "Accuracy"
    [] dimension = "presentation" -> "Presentation"
    [] dimension = "criticalThinking" -> "CriticalThinking"
    [] dimension = "clarity" -> "Clarity"
    [] dimension = "depth" -> "Depth"
    [] dimension = "critical_thinking" -> "Critical_thinking"
    [] dimension = "originality" -> "Originality"

\* result.details || {}
DetailsOf(result) == IF "details" \in DOMAIN result THEN result.details ELSE <<>>

\* the suggestions that the forEach body pushes for one entry of
\* dimensionScores: none for a name without an entry in feedbackMap, none for
\* a score that is not below 0.7
DimensionSuggestion(dimension, result) ==
  IF dimension \notin DOMAIN feedbackMap THEN <<>>
  ELSE IF Lt(result.score, Dec(40))
       THEN <<[category |-> Category(dimension), priority |-> "high",
               score |-> Round2(result.score),
               feedback |-> IF result.feedback # <<>> THEN result.feedback
                            ELSE <<feedbackMap[dimension].high>>,
               specificSuggestions |-> feedbackMap[dimension].specific,
               details |-> DetailsOf(result)]>>
  ELSE IF Lt(result.score, Dec(70))
       THEN <<[category |-> Category(dimension), priority |-> "medium",
               score |-> Round2(result.score),
               feedback |-> IF result.feedback # <<>> THEN result.feedback
                            ELSE <<feedbackMap[dimension].medium>>,
               specificSuggestions |-> feedbackMap[dimension].specific,
               details |-> DetailsOf(result)]>>
  ELSE <<>>

\* the grammar and style suggestion, pushed when there are grammar issues
GrammarSuggestion(textAnalysis) ==
  LET Scored(grammarScore) ==
        [category |-> "Grammar & Style",
         priority |-> IF Lt(grammarScore, Dec(60)) THEN "high" ELSE "medium",
         score |-> grammarScore,
         feedback |->
           <<IF Lt(grammarScore, Dec(60))
             THEN "Several grammar and style issues were found that affect readability."
             ELSE "Some grammar and style issues were found that could be improved.">>,
         specificSuggestions |->
           "Review your work for grammar, punctuation, and style consistency.",
         details |->
           [issues |-> SubSeq(textAnalysis.grammarIssues, 1,
                              IF Len(textAnalysis.grammarIssues) < MaxIssuesShown
                              THEN Len(textAnalysis.grammarIssues) ELSE MaxIssuesShown),
            totalIssues |-> Len(textAnalysis.grammarIssues)]]
  IN IF Len(textAnalysis.grammarIssues) > 0
     THEN <<Scored(MathMax(I(0),
                           Sub(I(1), Mul(Div(I(Len(textAnalysis.grammarIssues)),
                                             I(textAnalysis.wordCount)), I(100)))))>>
     ELSE <<>>

\* priorityOrder of the comparator of the sort
priorityOrder == [high |-> 0, medium |-> 1, low |-> 2]

\* the comparator of the sort returns a negative number: a goes before b
SortsBefore(a, b) ==
  IF priorityOrder[a.priority] # priorityOrder[b.priority]
  THEN priorityOrder[a.priority] < priorityOrder[b.priority]
  ELSE Lt(a.score, b.score)

\* Array.prototype.sort with the comparator, which is a stable sort: x is
\* put after the elements that do not sort after it
RECURSIVE InsertSorted(_, _)
InsertSorted(sorted, x) ==
  IF sorted = <<>> THEN <<x>>
  ELSE IF SortsBefore(x, Head(sorted)) THEN <<x>> \o sorted
  ELSE <<Head(sorted)>> \o InsertSorted(Tail(sorted), x)

RECURSIVE SortSuggestions(_)
SortSuggestions(suggestions) ==
  IF suggestions = <<>> THEN <<>>
  ELSE InsertSorted(SortSuggestions(SubSeq(suggestions, 1, Len(suggestions) - 1)),
                    suggestions[Len(suggestions)])

\* suggestions returned in the order they were pushed, without the sort
generateFeedbackSuggestions_m(textAnalysis, dimensionScores) ==
  Flatten([k \in 1..Len(dimensionScores) |->
             DimensionSuggestion(dimensionScores[k].name, dimensionScores[k].result)])
  \o GrammarSuggestion(textAnalysis)

\* FeedbackProcessor.generateFeedbackSuggestions(textAnalysis,
\* assignmentAnalysis, dimensionScores, assignmentType): the body reads
\* textAnalysis and dimensionScores only.  dimensionScores is the list of the
\* entries [name, result] in the order of Object.entries
generateFeedbackSuggestions(textAnalysis, dimensionScores) ==
  SortSuggestions(
    Flatten([k \in 1..Len(dimensionScores) |->
               DimensionSuggestion(dimensionScores[k].name, dimensionScores[k].result)])
    \o GrammarSuggestion(textAnalysis))

\* textAnalysis.grammarIssues.slice(0, 3)
MaxSampleIssues == 3

\* .filter(([_, count]) => count > 5)
MaxWordUses == 5

\* .slice(0, 3) of the overused words
MaxOverusedWords == 3

\* the area that the forEach body of identifyImprovementAreas pushes for one
\* entry of dimensionScores
DimensionArea(dimension, result) ==
  IF Lt(result.score, Dec(70))
  THEN <<[dimension |-> Category(dimension),
          currentScore |-> Round2(result.score),
          description |-> IF result.feedback # <<>> THEN result.feedback
                          ELSE <<"Needs improvement in ", dimension>>,
          priority |-> IF Lt(result.score, Dec(40)) THEN "high"
                       ELSE IF Lt(result.score, Dec(60)) THEN "medium" ELSE "low",
          details |-> DetailsOf(result)]>>
  ELSE <<>>

\* the grammar and style area, pushed when there are grammar issues
GrammarArea(textAnalysis) ==
  LET Scored(grammarScore) ==
        [dimension |-> "Grammar & Style",
         currentScore |-> Round2(grammarScore),
         description |->
           <<IF Lt(grammarScore, Dec(60))
             THEN "Several grammar and style issues affect readability"
             ELSE "Some grammar and style issues need attention">>,
         priority |-> IF Lt(grammarScore, Dec(50)) THEN "high" ELSE "medium",
         details |->
           [issueCount |-> Len(textAnalysis.grammarIssues),
            sampleIssues |-> SubSeq(textAnalysis.grammarIssues, 1,
                                    IF Len(textAnalysis.grammarIssues) < MaxSampleIssues
                                    THEN Len(textAnalysis.grammarIssues)
                                    ELSE MaxSampleIssues)]]
  IN IF Len(textAnalysis.grammarIssues) > 0
     THEN <<Scored(MathMax(I(0),
                           Sub(I(1), Mul(Div(I(Len(textAnalysis.grammarIssues)),
                                             MathMax(I(1), I(textAnalysis.wordCount))),
                                         I(100)))))>>
     ELSE <<>>

\* the vocabulary area: uniqueWordRatio is read from textAnalysis.vocabulary,
\* and undefined < 0.4 is false when the object has no such key
VocabularyArea(vocabulary) ==
  IF "uniqueWordRatio" \in DOMAIN vocabulary /\ Lt(vocabulary.uniqueWordRatio, Dec(40))
  THEN <<[dimension |-> "Vocabulary",
          currentScore |-> vocabulary.uniqueWordRatio,
          description |-> <<"Limited vocabulary variety detected">>,
          priority |-> "medium",
          details |-> [suggestion |-> "Try using more varied vocabulary and synonyms",
                       uniqueWordRatio |-> Round2(vocabulary.uniqueWordRatio)]]>>
  ELSE <<>>

\* the entries [word, count] of wordFrequency with count > 5, the most used
\* first, cut to three; wordFrequency || {} has no entry when
\* textAnalysis.vocabulary has no such key
RECURSIVE MostUsedFirst(_)
MostUsedFirst(entries) ==
  IF entries = <<>> THEN <<>>
  ELSE LET InsertByCount(sorted, x) ==
             SelectSeq(sorted, LAMBDA e : e.count >= x.count) \o <<x>>
             \o SelectSeq(sorted, LAMBDA e : e.count < x.count)
       IN InsertByCount(MostUsedFirst(SubSeq(entries, 1, Len(entries) - 1)),
                        entries[Len(entries)])

overusedWords(vocabulary) ==
  IF "wordFrequency" \in DOMAIN vocabulary
  THEN LET ranked == MostUsedFirst(SelectSeq(vocabulary.wordFrequency,
                                             LAMBDA e : e.count > MaxWordUses))
       IN SubSeq(ranked, 1, IF Len(ranked) < MaxOverusedWords THEN Len(ranked)
                            ELSE MaxOverusedWords)
  ELSE <<>>

\* the word choice area, pushed when some word is overused
WordChoiceArea(vocabulary) ==
  IF Len(overusedWords(vocabulary)) > 0
  THEN <<[dimension |-> "Word Choice",
          currentScore |-> Dec(60),
          description |-> <<"Some words may be overused">>,
          priority |-> "medium",
          details |->
            [suggestion |-> "Consider using synonyms or rephrasing to vary your word choice",
             overusedWords |-> overusedWords(vocabulary)]]>>
  ELSE <<>>

\* areas.sort with the comparator of the suggestions applied to priority and
\* currentScore
SortAreas(areas) ==
  LET AreasOf(keyed) == [k \in 1..Len(keyed) |-> keyed[k].area]
  IN AreasOf(SortSuggestions([k \in 1..Len(areas) |->
                               [priority |-> areas[k].priority,
                                score |-> areas[k].currentScore,
                                area |-> areas[k]]]))

\* FeedbackProcessor.identifyImprovementAreas(dimensionScores, textAnalysis)
identifyImprovementAreas(dimensionScores, textAnalysis) ==
  SortAreas(
    Flatten([k \in 1..Len(dimensionScores) |->
               DimensionArea(dimensionScores[k].name, dimensionScores[k].result)])
    \o GrammarArea(textAnalysis)
    \o (IF "vocabulary" \in DOMAIN textAnalysis
        THEN VocabularyArea(textAnalysis.vocabulary) \o WordChoiceArea(textAnalysis.vocabulary)
        ELSE <<>>))

\* FeedbackProcessor.extractTextContent(file)
extractTextContent(file) ==
  IF file.hasBuffer THEN Returned(file.buffer)
  ELSE IF file.hasPath
       THEN IF file.readable THEN Returned(file.disk)
            ELSE Threw(MSG_FailedToRead \o MSG_ENOENT)
  ELSE IF file.content # <<>> THEN Returned(file.content)
  ELSE Returned(file.text)

\* an emptiness test that forgets to trim: !textContent
IsEmptyContent_m(textContent) == textContent = <<>>

\* !textContent || textContent.trim().length === 0
IsEmptyContent(textContent) == textContent = <<>> \/ Len(trim(textContent)) = 0

\* const { assignmentType = 'essay' } = options
AssignmentTypeOf(opts) == IF opts.given THEN opts.assignmentType ELSE "essay"

\* const { evaluationCriteria = [] } = options: the field holds the empty
\* list when options has no such key
EvaluationCriteriaOf(opts) == opts.evaluationCriteria

\* Object.keys(evaluation.dimensions)
DimensionKeys(evaluation) ==
  [k \in 1..Len(evaluation.dimensions) |-> evaluation.dimensions[k].name]

\* the `result` of processSingleAssignment.  In textAnalysis the four keys
\* written after the spread replace the values of analyzeText.  Left out: the
\* clock value processedAt
CombineResults(evaluation, textAnalysis, assignmentAnalysis, assignmentType, evaluationCriteria) ==
  [textAnalysis |-> [textAnalysis EXCEPT
                       !.wordCount = evaluation.wordCount,
                       !.sentenceCount = evaluation.sentenceCount,
                       !.paragraphCount = evaluation.paragraphCount,
                       !.readabilityScore = evaluation.readabilityScore],
   assignmentAnalysis |-> assignmentAnalysis,
   dimensionScores |-> evaluation.dimensions,
   feedback |-> evaluation.feedback,
   feedbackSuggestions |-> generateFeedbackSuggestions(textAnalysis, evaluation.dimensions),
   improvementAreas |-> evaluation.areasForImprovement,
   strengths |-> evaluation.strengths,
   wordCount |-> evaluation.wordCount,
   readabilityScore |-> evaluation.readabilityScore,
   overallQuality |-> evaluation.overallScore,
   metadata |-> [assignmentType |-> assignmentType,
                 evaluationCriteria |->
                   IF Len(evaluationCriteria) > 0 THEN evaluationCriteria
                   ELSE DimensionKeys(evaluation)]]

\* processSingleAssignment from the evaluation on: an error of
\* analyzeByType is not caught
ProcessText(textContent, assignmentAnalysis, opts) ==
  IF assignmentAnalysis.kind = "throw" THEN assignmentAnalysis
  ELSE Returned(CombineResults(evaluate(textContent, AssignmentTypeOf(opts)),
                               analyzeText(textContent),
                               assignmentAnalysis.value,
                               AssignmentTypeOf(opts),
                               EvaluationCriteriaOf(opts)))

\* processSingleAssignment from the outcome of extractTextContent on
ProcessExtracted(extracted, opts) ==
  IF extracted.kind = "throw" THEN Threw(MSG_CouldNotProcess \o extracted.message)
  ELSE IF IsEmptyContent(extracted.value) THEN Threw(MSG_CouldNotProcess \o MSG_FileEmpty)
  ELSE ProcessText(extracted.value,
                   analyzeByType(extracted.value, AssignmentTypeOf(opts)), opts)

\* FeedbackProcessor.processSingleAssignment(file, options)
processSingleAssignment(file, opts) ==
  IF ~file.present THEN Threw(MSG_NoFileProvided)
  ELSE ProcessExtracted(extractTextContent(file), opts)

\* the `result` pushed by the try block (the clock value timestamp is left out)
SuccessResult(fileName, studentName, analysis) ==
  [fileName |-> fileName, studentName |-> studentName, analysis |-> analysis,
   status |-> "success"]

\* a catch block that records the failure under the status of the try block
ErrorResult_m(fileName, studentName, message) ==
  [fileName |-> fileName, studentName |-> studentName, error |-> message,
   status |-> "success"]

\* the `errorResult` pushed by the catch block
ErrorResult(fileName, studentName, message) ==
  [fileName |-> fileName, studentName |-> studentName, error |-> message,
   status |-> "error"]

\* the try and catch blocks of an iteration, given fileInfo.name and the
\* outcomes of processSingleAssignment and of extractStudentName: an error of
\* extractStudentName inside the try block is caught, and the catch block
\* calls extractStudentName again
TryCatch(fileName, analysis, studentName) ==
  IF studentName.kind = "throw" THEN Threw(studentName.message)
  ELSE IF analysis.kind = "return"
       THEN Returned(SuccessResult(fileName, studentName.value, analysis.value))
  ELSE Returned(ErrorResult(fileName, studentName.value, analysis.message))

\* one iteration of the loop of processBulkAssignments: the result it pushes,
\* or the error that leaves the loop.  fileInfo is built before the try block
BulkIteration(file, index, opts) ==
  IF ~file.present THEN Threw(MSG_NullProperty)
  ELSE TryCatch(FileInfoName(file, index),
                processSingleAssignment(file, opts),
                extractStudentName(FileInfoName(file, index)))

-----------------------------------------------------------------------------
(* FileUploadHandler: text extraction of uploaded files *)

\* 'text/plain'
MIME_text ==
  <<"t", "e", "x", "t", "/", "p", "l", "a", "i", "n">>

\* 'application/pdf'
MIME_pdf ==
  <<"a", "p", "p", "l", "i", "c", "a", "t", "i", "o", "n", "/", "p", "d", "f">>

\* 'application/vnd.openxmlformats-officedocument.wordprocessingml.document'
MIME_docx ==
  <<"a", "p", "p", "l", "i", "c", "a", "t", "i", "o", "n", "/", "v", "n", "d", ".", "o", "p",
    "e", "n", "x", "m", "l", "f", "o", "r", "m", "a", "t", "s", "-", "o", "f", "f", "i", "c",
    "e", "d", "o", "c", "u", "m", "e", "n", "t", ".", "w", "o", "r", "d", "p", "r", "o", "c",
    "e", "s", "s", "i", "n", "g", "m", "l", ".", "d", "o", "c", "u", "m", "e", "n", "t">>

\* 'application/msword'
MIME_doc ==
  <<"a", "p", "p", "l", "i", "c", "a", "t", "i", "o", "n", "/", "m", "s", "w", "o", "r", "d">>

\* `Failed to extract text from file: ${error.message}`, the prefix
MSG_FailedToExtract ==
  <<"F", "a", "i", "l", "e", "d", " ", "t", "o", " ", "e", "x", "t", "r", "a", "c", "t", " ",
    "t", "e", "x", "t", " ", "f", "r", "o", "m", " ", "f", "i", "l", "e", ":", " ">>

\* `Failed to read text file: ${error.message}`, the prefix
MSG_FailedToReadText ==
  <<"F", "a", "i", "l", "e", "d", " ", "t", "o", " ", "r", "e", "a", "d", " ", "t", "e", "x",
    "t", " ", "f", "i", "l", "e", ":", " ">>

\* `Failed to extract text from Word document: ${error.message}`, the prefix
MSG_FailedWord ==
  <<"F", "a", "i", "l", "e", "d", " ", "t", "o", " ", "e", "x", "t", "r", "a", "c", "t", " ",
    "t", "e", "x", "t", " ", "f", "r", "o", "m", " ", "W", "o", "r", "d", " ", "d", "o", "c",
    "u", "m", "e", "n", "t", ":", " ">>

\* `Unsupported file type: ${mimeType}`, the prefix
MSG_Unsupported ==
  <<"U", "n", "s", "u", "p", "p", "o", "r", "t", "e", "d", " ", "f", "i", "l", "e", " ", "t",
    "y", "p", "e", ":", " ">>

\* the text extractFromPDF returns from its catch block
STR_PdfPlaceholder ==
  <<"E", "r", "r", "o", "r", " ", "e", "x", "t", "r", "a", "c", "t", "i", "n", "g", " ", "t",
    "e", "x", "t", " ", "f", "r", "o", "m", " ", "P", "D", "F", ".", " ", "U", "s", "i", "n",
    "g", " ", "m", "o", "c", "k", " ", "d", "a", "t", "a", " ", "i", "n", "s", "t", "e", "a",
    "d", ".">>

\* data.text of MockPDFParser.parse
STR_MockPdfText ==
  <<"M", "o", "c", "k", " ", "P", "D", "F", " ", "c", "o", "n", "t", "e", "n", "t", ".", " ",
    "T", "h", "i", "s", " ", "i", "s", " ", "a", " ", "p", "l", "a", "c", "e", "h", "o", "l",
    "d", "e", "r", " ", "s", "i", "n", "c", "e", " ", "t", "h", "e", " ", "a", "c", "t", "u",
    "a", "l", " ", "P", "D", "F", " ", "p", "a", "r", "s", "e", "r", " ", "i", "s", " ", "h",
    "a", "v", "i", "n", "g", " ", "i", "s", "s", "u", "e", "s", ".">>

\* FileUploadHandler.extractFromTextFile(filePath)
extractFromTextFile(file) ==
  IF file.readable THEN Returned(file.disk)
  ELSE Threw(MSG_FailedToReadText \o MSG_ENOENT)

\* FileUploadHandler.extractFromPDF(filePath): the parser is MockPDFParser,
\* which returns its fixed text for every buffer
extractFromPDF(file) ==
  IF file.readable THEN Returned(STR_MockPdfText)
  ELSE Returned(STR_PdfPlaceholder)

\* FileUploadHandler.extractFromWordDocument(filePath): disk is the raw text
\* mammoth finds in the document
extractFromWordDocument(file) ==
  IF file.readable THEN Returned(file.disk)
  ELSE Threw(MSG_FailedWord \o MSG_ENOENT)

\* FileUploadHandler.extractTextFromFile(filePath, mimeType)
extractTextFromFile(file) ==
  LET inner == IF file.mimetype = MIME_text THEN extractFromTextFile(file)
               ELSE IF file.mimetype = MIME_pdf THEN extractFromPDF(file)
               ELSE IF file.mimetype \in {MIME_docx, MIME_doc} THEN extractFromWordDocument(file)
               ELSE Threw(MSG_Unsupported \o file.mimetype)
  IN IF inner.kind = "throw" THEN Threw(MSG_FailedToExtract \o inner.message) ELSE inner

\* path.extname(name).toLowerCase(): from the last dot on, unless that dot
\* is the first character
ExtName(name) ==
  LET dots == {i \in 2..Len(name) : name[i] = "."}
  IN IF dots = {} THEN <<>>
     ELSE toLowerCase(SubSeq(name, CHOOSE i \in dots : \A j \in dots : j <= i, Len(name)))

\* FileUploadHandler.extractMetadata(file) (the clock value uploadDate is left out)
extractMetadata(file) ==
  [originalName |-> file.originalname, size |-> file.size, mimeType |-> file.mimetype,
   extension |-> ExtName(file.originalname)]

\* one iteration of the loop of processUploadedFiles: the entry it pushes.
\* fs.remove does not fail for a path that is not there
UploadIteration(file) ==
  LET textContent == extractTextFromFile(file)
  IN IF textContent.kind = "return"
     THEN [name |-> file.originalname, content |-> textContent.value,
           metadata |-> extractMetadata(file), size |-> file.size, type |-> file.mimetype]
     ELSE [name |-> file.originalname, error |-> textContent.message,
           size |-> file.size, type |-> file.mimetype]

-----------------------------------------------------------------------------
(* Inputs of the runs *)

\* most entries of a `files` array
MaxFiles == 3

\* most tokens of a generated text
MaxTokens == 3

\* a short submission
TXT_Essay ==
  <<"I", "t", " ", "w", "a", "s", " ", "t", "e", "s", "t", "e", "d", " ", "b", "e", "c", "a",
    "u", "s", "e", " ", "c", "a", "t", "s", " ", "s", "l", "e", "e", "p", ".">>

\* another short submission
TXT_Note ==
  <<"C", "a", "t", "s", " ", "s", "l", "e", "e", "p">>

\* a text of white space only
TXT_Blank ==
  <<" ", " ", "\n">>

\* a submission with paragraphs, evidence and transition words
TXT_Sample ==
  <<"I", "n", "t", "r", "o", "d", "u", "c", "t", "i", "o", "n", ":", " ", "i", "m", "a", "g",
    "i", "n", "e", " ", "w", "h", "a", "t", " ", "s", "c", "h", "o", "o", "l", "s", " ", "c",
    "o", "u", "l", "d", " ", "b", "e", ".", "\n", "\n", "R", "e", "s", "e", "a", "r", "c", "h",
    " ", "s", "h", "o", "w", "s", " ", "t", "h", "a", "t", " ", "e", "d", "u", "c", "a", "t",
    "i", "o", "n", " ", "r", "e", "d", "u", "c", "e", "s", " ", "p", "o", "v", "e", "r", "t",
    "y", " ", "b", "e", "c", "a", "u", "s", "e", " ", "i", "t", " ", "w", "a", "s", " ", "t",
    "e", "s", "t", "e", "d", ".", " ", "H", "o", "w", "e", "v", "e", "r", ",", " ", "s", "t",
    "u", "d", "i", "e", "s", " ", "i", "n", "d", "i", "c", "a", "t", "e", " ", "l", "i", "m",
    "i", "t", "s", ".", "\n", "\n", "I", "n", " ", "c", "o", "n", "c", "l", "u", "s", "i", "o",
    "n", ",", " ", "t", "h", "e", "r", "e", "f", "o", "r", "e", ",", " ", "t", "h", "i", "s",
    " ", "s", "u", "g", "g", "e", "s", "t", "s", " ", "a", " ", "u", "n", "i", "q", "u", "e",
    " ", "p", "r", "o", "p", "o", "s", "a", "l", "!">>

\* the unit of the long texts
TXT_Filler ==
  <<"w", "o", "r", "d", " ">>

\* a worksheet with three numbers, one answer of more than ten characters
\* and one shorter answer
TXT_Worksheet ==
  <<"1", ".", " ", "C", "a", "t", "s", " ", "s", "l", "e", "e", "p", " ", "b", "e", "c",
    "a", "u", "s", "e", " ", "i", "t", " ", "i", "s", " ", "d", "a", "r", "k", ".", " ",
    "2", ".", " ", "N", "o", " ", "3", ".">>

\* a report with a section name, three citations and words of research
TXT_Report ==
  <<"I", "n", "t", "r", "o", "d", "u", "c", "t", "i", "o", "n", ":", " ", "t", "h", "e",
    " ", "s", "t", "u", "d", "y", " ", "(", "L", "e", "e", " ", "2", "0", "2", "0", ")",
    " ", "f", "o", "u", "n", "d", " ", "[", "1", "2", "]", " ", "t", "h", "a", "t", " ",
    "d", "a", "t", "a", " ", "s", "h", "o", "w", "s", " ", "a", " ", "m", "e", "t", "h",
    "o", "d", ",", " ", "R", "o", "e", " ", "e", "t", " ", "a", "l", ".", " ", "a", "g",
    "r", "e", "e", ".">>

\* a story with two pieces of dialogue, personal and sensory words
TXT_Story ==
  <<"\"", "H", "i", "\"", " ", "m", "y", " ", "h", "e", "r", "o", " ", "s", "a", "w", " ",
    "t", "h", "e", " ", "e", "n", "d", ".", " ", "I", "m", "a", "g", "i", "n", "e", " ",
    "\"", "n", "o", "\"", " ", "I", " ", "f", "e", "l", "t", ".">>

\* the entries a `files` array is made of
FileAnn ==
  [FileObject(Str(<<"a", "n", "n", " ", "l", "e", "e", ".", "t", "x", "t">>), Undefined)
     EXCEPT !.hasPath = TRUE, !.readable = TRUE, !.disk = TXT_Essay]

FileBob ==
  [FileObject(Undefined, Str(<<"b", "o", "b", ".", "t", "x", "t">>))
     EXCEPT !.hasBuffer = TRUE, !.buffer = TXT_Note]

FileEmpty == FileObject(Str(<<"c", "y", ".", "t", "x", "t">>), Undefined)

FileBlank ==
  [FileObject(Str(<<"d", "e", "e", ".", "t", "x", "t">>), Undefined)
     EXCEPT !.hasBuffer = TRUE, !.buffer = TXT_Blank]

\* a file without a name whose text ends with a line feed
FileNoName == [FileObject(Undefined, Undefined) EXCEPT !.content = TXT_Note \o <<"\n">>]

FileMissing ==
  [FileObject(Str(<<"e", "v", "e", ".", "t", "x", "t">>), Undefined)
     EXCEPT !.hasPath = TRUE, !.readable = FALSE]

FileNumbered == [FileObject(Undefined, Num(<<"7">>)) EXCEPT !.text = TXT_Note]

FilePool ==
  {FileAnn, FileBob, FileEmpty, FileBlank, FileNoName, FileMissing,
   FileNumbered, NullEntry}

\* the sequences of at most n elements of S
SeqsUpTo(S, n) == UNION {[1..k -> S] : k \in 0..n}

\* the argument `files`: a value that is no array, or an array
BulkInputs ==
  {[isArray |-> FALSE, items |-> <<>>]}
  \cup {[isArray |-> TRUE, items |-> fs] : fs \in SeqsUpTo(FilePool, MaxFiles)}

\* the argument `options`
NoOptions == [given |-> FALSE, assignmentType |-> "", evaluationCriteria |-> <<>>]

OptionsPool ==
  {NoOptions,
   [given |-> TRUE, assignmentType |-> "report", evaluationCriteria |-> <<>>],
   [given |-> TRUE, assignmentType |-> "essay",
    evaluationCriteria |-> <<"structure", "clarity">>]}

MIME_png == <<"i", "m", "a", "g", "e", "/", "p", "n", "g">>

UploadName == <<"E", "s", "s", "a", "y", ".", "T", "X", "T">>

\* a file object of multer: what is on disk at file.path is disk
UploadedFile(mimetype, readable) ==
  [originalname |-> UploadName, mimetype |-> mimetype, readable |-> readable,
   disk |-> TXT_Note, size |-> Len(TXT_Note)]

UploadPool ==
  {UploadedFile(m, r) : m \in {MIME_text, MIME_pdf, MIME_doc, MIME_png}, r \in BOOLEAN}

UploadInputs == SeqsUpTo(UploadPool, MaxFiles)

\* the words and separators the generated texts are made of
Tokens ==
  {<<"T", "h", "e">>,
   <<"c", "a", "t">>,
   <<" ">>,
   <<".">>,
   <<"\n", "\n">>,
   <<"b", "e", "c", "a", "u", "s", "e">>}

\* unit repeated n times
RECURSIVE Repeat(_, _)
Repeat(unit, n) ==
  IF n <= 0 THEN <<>>
  ELSE IF n = 1 THEN unit
  ELSE Repeat(unit, n \div 2) \o Repeat(unit, n - n \div 2)

\* texts around the minimum expected number of words
LongTexts == {Repeat(TXT_Filler, n) \o <<"!">> : n \in (MinWords - 2)..MinWords}

\* " 3 cats sleep. the cat": a sentence that starts with a digit and one that
\* starts with a lower-case letter
TXT_Tail ==
  <<" ", "3", " ", "c", "a", "t", "s", " ", "s", "l", "e", "e", "p", ".", " ", "t", "h", "e",
    " ", "c", "a", "t">>

\* texts whose first sentence is around the longest that is no run-on
RunOnTexts ==
  {Repeat(TXT_Filler, n) \o <<"!">> \o TXT_Tail : n \in MaxSentenceWords..(MaxSentenceWords + 1)}

\* the argument `text` of the evaluator calls
TextPool ==
  {Flatten(ts) : ts \in SeqsUpTo(Tokens, MaxTokens)}
  \cup {TXT_Essay, TXT_Note, TXT_Blank, TXT_Sample, TXT_Worksheet, TXT_Report, TXT_Story}
  \cup LongTexts \cup RunOnTexts

\* the longest generated word
MaxLetters == 4

\* the letters of the generated words: vowels and the consonants of the
\* endings -ed and -es
Letters == {"a", "e", "y", "d", "s"}

\* the words of the tests of countSyllables and words with a capital, with
\* l before a final e and with an ending -es
TestWords ==
  {<<"h", "e", "l", "l", "o">>, <<"w", "o", "r", "l", "d">>,
   <<"s", "y", "l", "l", "a", "b", "l", "e">>,
   <<"b", "e", "a", "u", "t", "i", "f", "u", "l">>, <<"t", "h", "e">>,
   <<"e", "x", "t", "r", "a", "o", "r", "d", "i", "n", "a", "r", "y">>,
   <<"t", "e", "s", "t", "i", "n", "g">>, <<"a">>, <<"I">>,
   <<"Y", "e", "l", "l", "o", "w">>, <<"t", "a", "l", "e", "s">>,
   <<"b", "o", "x", "e", "s">>}

\* the argument `word` of countSyllables
WordPool == TestWords \cup SeqsUpTo(Letters, MaxLetters)

\* the argument `dimension`: the keys of the registry, the name the table of
\* evaluate uses for critical thinking, an inherited key and an unknown name
DimensionInputs ==
  AnalyzerNames \cup InheritedNames \cup {"criticalThinking", "not_a_real_dimension"}

\* the argument `dimension` of the calls made through the processor
ProcessorDimensionInputs == {"clarity", "not_a_real_dimension"}

\* the argument `assignmentType` of analyzeByType: the keys of the handlers,
\* a name that is no key, and keys inherited from Object.prototype
AssignmentTypeInputs == HandlerNames \cup {"unknown"} \cup InheritedNames \cup InheritedObjects

\* the dimension scores that a caller collects from evaluateDimension for a
\* list of registered dimensions, as entries [name, result]
DimensionScoresOf(t, criteria, assignmentType) ==
  [k \in 1..Len(criteria) |->
     [name |-> criteria[k], result |-> Analyze(criteria[k], t, assignmentType)]]

\* lists of registered dimensions: all eight, and the two without an entry
\* in feedbackMap followed by one that has an entry
CriteriaInputs ==
  {<<"structure", "creativity", "accuracy", "presentation", "critical_thinking",
     "originality", "clarity", "depth">>,
   <<"critical_thinking", "originality", "structure">>}

NoCall == [op |-> "none", dimension |-> "", assignmentType |-> ""]

NoReturn == [kind |-> "none"]

-----------------------------------------------------------------------------
(* processSingleAssignment as the steps between its awaits *)

\* the number of calls of processSingleAssignment in flight together
MaxCalls == 2

\* the calls of processSingleAssignment made on one processor before any of
\* them is resumed
Callers == 1..MaxCalls

\* the local variables of a call that has not run yet: `at` is the await the
\* call is suspended at, "start" before it runs and "done" once it has
\* returned or thrown
NewCall(file, opts) ==
  [file |-> file, options |-> opts, at |-> "start", textContent |-> <<>>,
   evaluation |-> NoReturn, textAnalysis |-> NoReturn, outcome |-> NoReturn]

\* the calls made together: files with different texts, a blank file and a
\* null entry, with the default assignment type or another
CallPool ==
  {NewCall(file, opts) : file \in {FileAnn, FileBob, FileBlank, NullEntry},
                         opts \in {o \in OptionsPool : Len(o.evaluationCriteria) = 0}}

\* the call has thrown or returned
Settled(frame, settlement) == [frame EXCEPT !.at = "done", !.outcome = settlement]

\* the call up to its first await: the guard on `file`
Enter(frame) ==
  IF ~frame.file.present THEN Settled(frame, Threw(MSG_NoFileProvided))
  ELSE [frame EXCEPT !.at = "extract"]

\* the call after the await of extractTextContent
AfterExtract(frame, extracted) ==
  IF extracted.kind = "throw"
  THEN Settled(frame, Threw(MSG_CouldNotProcess \o extracted.message))
  ELSE IF IsEmptyContent(extracted.value)
       THEN Settled(frame, Threw(MSG_CouldNotProcess \o MSG_FileEmpty))
  ELSE [frame EXCEPT !.at = "evaluate", !.textContent = extracted.value]

\* the call after the await of analyzeByType, whose error is not caught
AfterAnalyze(frame, assignmentAnalysis) ==
  IF assignmentAnalysis.kind = "throw" THEN Settled(frame, assignmentAnalysis)
  ELSE Settled(frame, Returned(CombineResults(frame.evaluation, frame.textAnalysis,
                                              assignmentAnalysis.value,
                                              AssignmentTypeOf(frame.options),
                                              EvaluationCriteriaOf(frame.options))))

\* a processor that keeps the extracted text in a field of the instance,
\* which every call writes: the evaluation reads the text of the first call
Resume_m(frames, c) ==
  CASE frames[c].at = "start" -> Enter(frames[c])
    [] frames[c].at = "extract" ->
         AfterExtract(frames[c], extractTextContent(frames[c].file))
    [] frames[c].at = "evaluate" ->
         [frames[c] EXCEPT !.at = "analyze",
                           !.evaluation = evaluate(frames[1].textContent,
                                                   AssignmentTypeOf(frames[c].options)),
                           !.textAnalysis = analyzeText(frames[1].textContent)]
    [] frames[c].at = "analyze" ->
         AfterAnalyze(frames[c],
                      analyzeByType(frames[1].textContent, AssignmentTypeOf(frames[c].options)))

\* processSingleAssignment of call c, from the await it is suspended at to
\* the next one (or to its end): the local variables of the call afterwards.
\* The awaits are those of extractTextContent, evaluate and analyzeByType;
\* the call reads and writes its own local variables only
Resume(frames, c) ==
  CASE frames[c].at = "start" -> Enter(frames[c])
    [] frames[c].at = "extract" ->
         AfterExtract(frames[c], extractTextContent(frames[c].file))
    [] frames[c].at = "evaluate" ->
         [frames[c] EXCEPT !.at = "analyze",
                           !.evaluation = evaluate(frames[c].textContent,
                                                   AssignmentTypeOf(frames[c].options)),
                           !.textAnalysis = analyzeText(frames[c].textContent)]
    [] frames[c].at = "analyze" ->
         AfterAnalyze(frames[c],
                      analyzeByType(frames[c].textContent, AssignmentTypeOf(frames[c].options)))

-----------------------------------------------------------------------------
(* The runs: one call of an entry point each *)

Init ==
  /\ pc = "start"
  /\ idx = 0
  /\ results = <<>>
  /\ outcome = "none"
  /\ thrown = <<>>
  /\ processed = <<>>
  /\ call = NoCall
  /\ ret = NoReturn
  /\ \/ /\ mode = "conc"
        /\ input = [isArray |-> TRUE, items |-> <<>>]
        /\ options = NoOptions
        /\ uploads = <<>>
        /\ text = <<>>
        /\ calls \in [Callers -> CallPool]
     \/ /\ mode = "bulk"
        /\ input \in BulkInputs
        /\ options \in OptionsPool
        /\ uploads = <<>>
        /\ text = <<>>
        /\ calls = <<>>
     \/ /\ mode = "upload"
        /\ input = [isArray |-> TRUE, items |-> <<>>]
        /\ options = NoOptions
        /\ uploads \in UploadInputs
        /\ text = <<>>
        /\ calls = <<>>
     \/ /\ mode = "eval"
        /\ input = [isArray |-> TRUE, items |-> <<>>]
        /\ options = NoOptions
        /\ uploads = <<>>
        /\ text \in TextPool
        /\ calls = <<>>
     \/ /\ mode = "word"
        /\ input = [isArray |-> TRUE, items |-> <<>>]
        /\ options = NoOptions
        /\ uploads = <<>>
        /\ text \in WordPool
        /\ calls = <<>>

\* BulkIteration for every entry, index and options of the inputs, computed
\* once: the iteration depends on nothing else
IterationOf ==
  [file \in FilePool, index \in 0..(MaxFiles - 1), opts \in OptionsPool |->
     BulkIteration(file, index, opts)]

\* processBulkAssignments: the guard on `files` and the set-up of the loop
BulkEnter ==
  /\ mode = "bulk" /\ pc = "start"
  /\ IF ~input.isArray \/ Len(input.items) = 0
     THEN /\ pc' = "done"
          /\ outcome' = "thrown"
          /\ thrown' = MSG_NoFilesProvided
     ELSE /\ pc' = "loop"
          /\ UNCHANGED <<outcome, thrown>>
  /\ idx' = 0
  /\ results' = <<>>
  /\ UNCHANGED <<mode, input, options, uploads, calls, processed, text, call, ret>>

\* processBulkAssignments: the iteration for files[idx]
BulkFile ==
  /\ mode = "bulk" /\ pc = "loop" /\ idx < Len(input.items)
  /\ \E step \in {IterationOf[input.items[idx + 1], idx, options]} :
       IF step.kind = "throw"
       THEN /\ pc' = "done"
            /\ outcome' = "thrown"
            /\ thrown' = step.message
            /\ UNCHANGED <<idx, results>>
       ELSE /\ results' = Append(results, step.value)
            /\ idx' = idx + 1
            /\ UNCHANGED <<pc, outcome, thrown>>
  /\ UNCHANGED <<mode, input, options, uploads, calls, processed, text, call, ret>>

\* processBulkAssignments: the loop is over, `return results`
BulkReturn ==
  /\ mode = "bulk" /\ pc = "loop" /\ idx = Len(input.items)
  /\ pc' = "done"
  /\ outcome' = "returned"
  /\ UNCHANGED <<mode, input, options, idx, results, thrown, uploads, calls, processed, text, call, ret>>

\* processUploadedFiles: `const processedFiles = []`
UploadEnter ==
  /\ mode = "upload" /\ pc = "start"
  /\ pc' = "loop"
  /\ idx' = 0
  /\ processed' = <<>>
  /\ UNCHANGED <<mode, input, options, results, outcome, thrown, uploads, calls, text, call, ret>>

\* processUploadedFiles: the iteration for the next file
UploadFile ==
  /\ mode = "upload" /\ pc = "loop" /\ idx < Len(uploads)
  /\ processed' = Append(processed, UploadIteration(uploads[idx + 1]))
  /\ idx' = idx + 1
  /\ UNCHANGED <<mode, input, options, pc, results, outcome, thrown, uploads, calls, text, call, ret>>

\* processUploadedFiles: `return processedFiles`
UploadReturn ==
  /\ mode = "upload" /\ pc = "loop" /\ idx = Len(uploads)
  /\ pc' = "done"
  /\ outcome' = "returned"
  /\ UNCHANGED <<mode, input, options, idx, results, thrown, uploads, calls, processed, text, call, ret>>

\* a call of EvaluationDimensions.evaluateDimension
EvaluateDimension ==
  /\ mode = "eval" /\ pc = "start"
  /\ \E dimension \in DimensionInputs :
       /\ call' = [op |-> "evaluateDimension", dimension |-> dimension, assignmentType |-> "essay"]
       /\ ret' = evaluateDimension(text, dimension, "essay")
  /\ pc' = "done"
  /\ UNCHANGED <<mode, input, options, idx, results, outcome, thrown, uploads, calls, processed, text>>

\* a call of FeedbackProcessor.evaluateDimension
ProcessorEvaluateDimension ==
  /\ mode = "eval" /\ pc = "start"
  /\ \E dimension \in ProcessorDimensionInputs :
       /\ call' = [op |-> "FeedbackProcessor.evaluateDimension", dimension |-> dimension,
                   assignmentType |-> "essay"]
       /\ ret' = FPevaluateDimension(text, dimension, "essay")
  /\ pc' = "done"
  /\ UNCHANGED <<mode, input, options, idx, results, outcome, thrown, uploads, calls, processed, text>>

\* a call of EvaluationDimensions.evaluate
Evaluate ==
  /\ mode = "eval" /\ pc = "start"
  /\ call' = [op |-> "evaluate", dimension |-> "", assignmentType |-> "essay"]
  /\ ret' = Returned(evaluate(text, "essay"))
  /\ pc' = "done"
  /\ UNCHANGED <<mode, input, options, idx, results, outcome, thrown, uploads, calls, processed, text>>

\* a call of EvaluationDimensions.evaluate with null for the text
EvaluateNull ==
  /\ mode = "eval" /\ pc = "start"
  /\ call' = [op |-> "evaluateNull", dimension |-> "", assignmentType |-> "essay"]
  /\ ret' = evaluateNull("essay")
  /\ pc' = "done"
  /\ UNCHANGED <<mode, input, options, idx, results, outcome, thrown, uploads, calls, processed, text>>

\* a call of FeedbackProcessor.generateFeedbackSuggestions with the text
\* analysis of the text and the results of evaluateDimension for some
\* registered dimensions
GenerateFeedbackSuggestions ==
  /\ mode = "eval" /\ pc = "start"
  /\ \E criteria \in CriteriaInputs :
       /\ call' = [op |-> "generateFeedbackSuggestions", dimension |-> criteria,
                   assignmentType |-> "essay"]
       /\ ret' = Returned(generateFeedbackSuggestions(analyzeText(text),
                                                      DimensionScoresOf(text, criteria, "essay")))
  /\ pc' = "done"
  /\ UNCHANGED <<mode, input, options, idx, results, outcome, thrown, uploads, calls, processed, text>>

\* a call of FeedbackProcessor.identifyImprovementAreas with the results of
\* evaluateDimension for some registered dimensions and the text analysis of
\* the text
IdentifyImprovementAreas ==
  /\ mode = "eval" /\ pc = "start"
  /\ \E criteria \in CriteriaInputs :
       /\ call' = [op |-> "identifyImprovementAreas", dimension |-> criteria,
                   assignmentType |-> "essay"]
       /\ ret' = Returned(identifyImprovementAreas(DimensionScoresOf(text, criteria, "essay"),
                                                   analyzeText(text)))
  /\ pc' = "done"
  /\ UNCHANGED <<mode, input, options, idx, results, outcome, thrown, uploads, calls, processed, text>>

\* a call of AssignmentAnalyzer.analyzeByType
AnalyzeByType ==
  /\ mode = "eval" /\ pc = "start"
  /\ \E assignmentType \in AssignmentTypeInputs :
       /\ call' = [op |-> "analyzeByType", dimension |-> "", assignmentType |-> assignmentType]
       /\ ret' = analyzeByType(text, assignmentType)
  /\ pc' = "done"
  /\ UNCHANGED <<mode, input, options, idx, results, outcome, thrown, uploads, calls, processed, text>>

\* a call of FeedbackProcessor.analyzeText
AnalyzeText ==
  /\ mode = "eval" /\ pc = "start"
  /\ call' = [op |-> "analyzeText", dimension |-> "", assignmentType |-> ""]
  /\ ret' = Returned(analyzeText(text))
  /\ pc' = "done"
  /\ UNCHANGED <<mode, input, options, idx, results, outcome, thrown, uploads, calls, processed, text>>

\* a call of FeedbackProcessor.countSyllables; `text` holds the word
CountSyllables ==
  /\ mode = "word" /\ pc = "start"
  /\ call' = [op |-> "countSyllables", dimension |-> "", assignmentType |-> ""]
  /\ ret' = Returned(FPcountSyllables(text))
  /\ pc' = "done"
  /\ UNCHANGED <<mode, input, options, idx, results, outcome, thrown, uploads, calls, processed, text>>

\* the caller starts every call, one after the other, before it awaits any:
\* each runs up to its first await
StartCalls ==
  /\ mode = "conc" /\ pc = "start"
  /\ calls' = [c \in Callers |-> Enter(calls[c])]
  /\ pc' = "running"
  /\ UNCHANGED <<mode, input, options, idx, results, outcome, thrown, uploads, processed,
                 text, call, ret>>

\* the event loop resumes one of the suspended calls, in any order
ResumeCall ==
  /\ mode = "conc" /\ pc = "running"
  /\ \E c \in Callers :
       /\ calls[c].at # "done"
       /\ calls' = [calls EXCEPT ![c] = Resume(calls, c)]
  /\ pc' = IF \A c \in Callers : calls'[c].at = "done" THEN "done" ELSE pc
  /\ UNCHANGED <<mode, input, options, idx, results, outcome, thrown, uploads, processed,
                 text, call, ret>>

Next ==
  \/ StartCalls
  \/ ResumeCall
  \/ BulkEnter
  \/ BulkFile
  \/ BulkReturn
  \/ UploadEnter
  \/ UploadFile
  \/ UploadReturn
  \/ EvaluateDimension
  \/ ProcessorEvaluateDimension
  \/ Evaluate
  \/ EvaluateNull
  \/ GenerateFeedbackSuggestions
  \/ IdentifyImprovementAreas
  \/ AnalyzeByType
  \/ AnalyzeText
  \/ CountSyllables

Spec == Init /\ [][Next]_vars

-----------------------------------------------------------------------------
(* Properties of the batch: processBulkAssignments *)

\* C1: for every array of files, the call returns exactly one result per
\* input file, and the i-th result is the one of the i-th file, under that
\* file's name
C1_OneResultPerFile ==
  (mode = "bulk" /\ pc = "done" /\ input.isArray) =>
     /\ outcome = "returned"
     /\ Len(results) = Len(input.items)
     /\ \A i \in 1..Len(results) :
          results[i].fileName = FileInfoName(input.items[i], i - 1)

\* a batch of three whose second entry is null has ended with one result
C1_NullEntryDropsResults ==
  /\ mode = "bulk" /\ pc = "done"
  /\ Len(input.items) = 3
  /\ input.items[1] = FileAnn /\ input.items[2] = NullEntry /\ input.items[3] = FileBob
  /\ outcome = "thrown"
  /\ Len(results) = 1

\* C2: a failure never stops the loop: when the call has ended, every file
\* after a file whose processing failed has its own result, in its place
C2_FailureDoesNotStopLoop ==
  (mode = "bulk" /\ pc = "done" /\ input.isArray) =>
     \A i \in 1..Len(input.items) :
        processSingleAssignment(input.items[i], options).kind = "throw" =>
           \A j \in (i + 1)..Len(input.items) :
              /\ j <= Len(results)
              /\ results[j].fileName = FileInfoName(input.items[j], j - 1)

\* the call has ended after the failure of the first of two files, and the
\* second file has no result
C2_LoopStoppedAfterFailure ==
  /\ mode = "bulk" /\ pc = "done"
  /\ Len(input.items) = 2
  /\ input.items[1] = NullEntry /\ input.items[2] = FileAnn
  /\ Len(results) = 0

\* C3: for an array with entries, whatever the entries are (null, no name),
\* the call returns and a null entry is recorded as an error result
C3_NeverThrowsForAnItem ==
  (mode = "bulk" /\ pc = "done" /\ input.isArray /\ Len(input.items) > 0) =>
     /\ outcome = "returned"
     /\ \A i \in 1..Len(input.items) :
          ~input.items[i].present =>
             i <= Len(results) /\ results[i].status = "error"

\* the call has thrown the TypeError of reading a property of a null entry
C3_ThrownForNullEntry ==
  /\ mode = "bulk" /\ pc = "done"
  /\ Len(input.items) = 1 /\ input.items[1] = NullEntry
  /\ outcome = "thrown" /\ thrown = MSG_NullProperty

\* C4: an empty array gives an empty result sequence and no error
C4_EmptyArrayReturnsEmpty ==
  (mode = "bulk" /\ pc = "done" /\ input.isArray /\ Len(input.items) = 0) =>
     outcome = "returned" /\ results = <<>>

\* the call with an empty array has thrown 'No files provided for processing'
C4_ThrownForEmptyArray ==
  /\ mode = "bulk" /\ pc = "done"
  /\ input.isArray /\ Len(input.items) = 0
  /\ outcome = "thrown" /\ thrown = MSG_NoFilesProvided

\* C5: in every result exactly one of analysis and error is there; the
\* status is 'success' iff it is the analysis, 'error' iff it is the error
\* message, which is not empty
C5_ExactlyOneOfAnalysisAndError ==
  mode = "bulk" =>
     \A i \in 1..Len(results) :
        /\ ("analysis" \in DOMAIN results[i]) # ("error" \in DOMAIN results[i])
        /\ results[i].status \in {"success", "error"}
        /\ results[i].status = "success" <=> "analysis" \in DOMAIN results[i]
        /\ results[i].status = "error" <=>
             ("error" \in DOMAIN results[i] /\ Len(results[i].error) > 0)

\* a batch has returned a result with an analysis and a result with an error
C5_MixedBatchReturned ==
  /\ mode = "bulk" /\ outcome = "returned"
  /\ \E i, j \in 1..Len(results) :
        /\ results[i].status = "success" /\ "analysis" \in DOMAIN results[i]
        /\ results[j].status = "error" /\ "error" \in DOMAIN results[j]

\* the word the message of an empty file has to contain
STR_empty == <<"e", "m", "p", "t", "y">>

\* the text extracted from a file is there and is empty or only white space
C6_ExtractsBlank(file) ==
  /\ file.present
  /\ extractTextContent(file).kind = "return"
  /\ \A k \in 1..Len(extractTextContent(file).value) :
        IsSpace(extractTextContent(file).value[k])

\* a file with a name that is a string and an extracted text that has a
\* character other than white space
C6_ExtractsText(file) ==
  /\ file.present
  /\ FileInfoName(file, 0).type = "string"
  /\ extractTextContent(file).kind = "return"
  /\ \E k \in 1..Len(extractTextContent(file).value) :
        ~IsSpace(extractTextContent(file).value[k])

-----------------------------------------------------------------------------
(* Properties of text extraction *)

\* C7: a file whose text extraction raises an error ends as an error outcome
\* whose message contains the message of the extraction error, in the batch
\* and in the upload handler; it never ends with a content
C7_ExtractionErrorIsAnError ==
  /\ mode = "bulk" =>
        \A i \in 1..Len(results) :
           (input.items[i].present /\ extractTextContent(input.items[i]).kind = "throw") =>
              /\ results[i].status = "error"
              /\ includes(results[i].error, MSG_ENOENT)
  /\ mode = "upload" =>
        \A i \in 1..Len(processed) :
           (~uploads[i].readable /\ uploads[i].mimetype \in {MIME_text, MIME_pdf, MIME_doc}) =>
              /\ "error" \in DOMAIN processed[i]
              /\ "content" \notin DOMAIN processed[i]
              /\ includes(processed[i].error, MSG_ENOENT)

\* a PDF that cannot be read has been given the placeholder text as content
C7_PlaceholderContent ==
  /\ mode = "upload" /\ pc = "done"
  /\ Len(uploads) = 1
  /\ uploads[1].mimetype = MIME_pdf /\ ~uploads[1].readable
  /\ "content" \in DOMAIN processed[1]
  /\ processed[1].content = STR_PdfPlaceholder

-----------------------------------------------------------------------------
(* Properties of the evaluator: EvaluationDimensions *)

\* C8: evaluating one dimension whose name is not in the fixed set fails with
\* 'Unknown evaluation dimension', on the evaluator and through
\* FeedbackProcessor.evaluateDimension; it never returns a result
C8_UnknownDimensionFails ==
  ( /\ mode = "eval" /\ pc = "done"
    /\ call.op \in {"evaluateDimension", "FeedbackProcessor.evaluateDimension"}
    /\ call.dimension \notin AnalyzerNames )
  => /\ ret.kind = "throw"
     /\ ret.message[1] = "Unknown evaluation dimension: "

\* FeedbackProcessor.evaluateDimension has returned a report for a name that
\* is no dimension
C8_ReportForUnknownDimension ==
  /\ mode = "eval" /\ pc = "done"
  /\ call.op = "FeedbackProcessor.evaluateDimension"
  /\ call.dimension = "not_a_real_dimension"
  /\ ret.kind = "return"
  /\ "overallScore" \in DOMAIN ret.value

\* x is a number of [0, 1]
C9_InUnitInterval(x) == IsFinite(x) /\ Ge(x, I(0)) /\ Le(x, I(1))

\* C9: for every dimension of the fixed set and every text, the score of the
\* dimension is a number of [0, 1], evaluated alone or in a report
C9_ScoreInUnitInterval ==
  (mode = "eval" /\ pc = "done") =>
     /\ (call.op = "evaluateDimension" /\ call.dimension \in AnalyzerNames) =>
           ret.kind = "return" /\ C9_InUnitInterval(ret.value.score)
     /\ call.op = "evaluate" =>
           \A k \in 1..Len(ret.value.dimensions) :
              C9_InUnitInterval(ret.value.dimensions[k].result.score)

\* originality has been scored for a text that is only punctuation
C9_PunctuationScored ==
  /\ mode = "eval" /\ pc = "done"
  /\ call.op = "evaluateDimension" /\ call.dimension = "originality"
  /\ Len(text) > 0 /\ \A k \in 1..Len(text) : text[k] = "."
  /\ ret.kind = "return"
  /\ C9_InUnitInterval(ret.value.score)

\* the weight of a dimension in the table of evaluate
C10_WeightOf(name) ==
  LET k == CHOOSE j \in 1..Len(EvaluationWeights) : EvaluationWeights[j].name = name
  IN EvaluationWeights[k].weight

\* W: the weighted average of the dimension scores of a report
C10_W(dimensions) ==
  Div(SumNum([k \in 1..Len(dimensions) |->
                Mul(dimensions[k].result.score, C10_WeightOf(dimensions[k].name))]),
      SumNum([k \in 1..Len(dimensions) |-> C10_WeightOf(dimensions[k].name)]))

\* C10: the overallScore of a report is W * min(1, wordCount / 150), W the
\* weighted average of the dimension scores: W * wordCount / 150 under 150
\* words, W from 150 words on, and a number of [0, 1]
C10_OverallScoreIsPenalisedAverage ==
  (mode = "eval" /\ pc = "done" /\ call.op = "evaluate") =>
     /\ ret.value.wordCount < MinWords =>
           ret.value.overallScore =
              Mul(C10_W(ret.value.dimensions), Div(I(ret.value.wordCount), I(MinWords)))
     /\ ret.value.wordCount >= MinWords =>
           ret.value.overallScore = C10_W(ret.value.dimensions)
     /\ IsFinite(ret.value.overallScore)
     /\ Ge(ret.value.overallScore, I(0))
     /\ Le(ret.value.overallScore, I(1))

\* a report of a text one word short of the minimum has a positive overall
\* score under the weighted average
C10_PenalisedReport ==
  /\ mode = "eval" /\ pc = "done" /\ call.op = "evaluate"
  /\ ret.value.wordCount = MinWords - 1
  /\ Gt(ret.value.overallScore, I(0))
  /\ Lt(ret.value.overallScore, C10_W(ret.value.dimensions))

-----------------------------------------------------------------------------
(* Properties of the report: EvaluationDimensions.evaluate *)

\* the seven weighted dimensions, under the names of the registry
C11_WeightedDimensions ==
  {"structure", "creativity", "accuracy", "presentation", "critical_thinking",
   "clarity", "depth"}

\* the names of the entries of a report's dimensions
C11_NamesOf(dimensions) == {dimensions[k].name : k \in 1..Len(dimensions)}

\* C11: a report of evaluate has an entry for each of the seven weighted
\* dimensions, critical thinking included, and its overall score before
\* the length penalty is the average of the scores under the weights
\* .20/.15/.15/.10/.20/.10/.10 over the sum of the weights of the
\* dimensions evaluated
C11_SevenDimensionsEvaluated ==
  (mode = "eval" /\ pc = "done" /\ call.op = "evaluate") =>
     /\ Len(ret.value.dimensions) = 7
     /\ \A name \in C11_WeightedDimensions :
           \E k \in 1..Len(ret.value.dimensions) :
              \/ ret.value.dimensions[k].name = name
              \/ name = "critical_thinking" /\ ret.value.dimensions[k].name = "criticalThinking"
     /\ ret.value.wordCount >= MinWords =>
           ret.value.overallScore = C10_W(ret.value.dimensions)

\* a report has been returned with six dimensions, critical thinking not
\* among them
C11_CriticalThinkingSkipped ==
  /\ mode = "eval" /\ pc = "done" /\ call.op = "evaluate"
  /\ text = TXT_Essay
  /\ C11_NamesOf(ret.value.dimensions) =
        {"structure", "creativity", "accuracy", "presentation", "clarity", "depth"}

\* the dimensions listed in the strengths, and in the improvements, of a report
C12_StrengthNames(report) == {report.strengths[k].dimension : k \in 1..Len(report.strengths)}

C12_ImprovementNames(report) ==
  {report.areasForImprovement[k].dimension : k \in 1..Len(report.areasForImprovement)}

\* C12: in a report a dimension is listed in the strengths iff its score is
\* >= 0.7, in the improvements iff its score is < 0.5
C12_ClassifiedByScore ==
  (mode = "eval" /\ pc = "done" /\ call.op = "evaluate") =>
     \A k \in 1..Len(ret.value.dimensions) :
        /\ ret.value.dimensions[k].name \in C12_StrengthNames(ret.value)
              <=> Ge(ret.value.dimensions[k].result.score, Dec(70))
        /\ ret.value.dimensions[k].name \in C12_ImprovementNames(ret.value)
              <=> Lt(ret.value.dimensions[k].result.score, Dec(50))

\* a report has a dimension that scores exactly 0.7 and is not a strength
C12_ExactBoundaryNotAStrength ==
  /\ mode = "eval" /\ pc = "done" /\ call.op = "evaluate"
  /\ text = TXT_Note
  /\ \E k \in 1..Len(ret.value.dimensions) :
        /\ ret.value.dimensions[k].name = "creativity"
        /\ ret.value.dimensions[k].result.score = Dec(70)
        /\ "creativity" \notin C12_StrengthNames(ret.value)

-----------------------------------------------------------------------------
(* Properties of the analysis by type: AssignmentAnalyzer *)

\* C13: analyzeByType with an assignment type that is none of essay,
\* worksheet, report, creative, analysis, general returns the analysis of
\* the general handler, of type 'general', and raises no error
C13_UnknownTypeIsGeneral ==
  ( /\ mode = "eval" /\ pc = "done"
    /\ call.op = "analyzeByType"
    /\ call.assignmentType \notin HandlerNames )
  => /\ ret.kind = "return"
     /\ "type" \in DOMAIN ret.value
     /\ ret.value.type = "general"

\* analyzeByType has raised an error for an assignment type that is no handler
C13_ErrorForInheritedKey ==
  /\ mode = "eval" /\ pc = "done"
  /\ call.op = "analyzeByType"
  /\ call.assignmentType = "__proto__"
  /\ ret.kind = "throw"

\* a score within [0, 1]
C27_InUnit(x) == Le(I(0), x) /\ Le(x, I(1))

\* the sub-scores of the analysis that a handler has returned
C27_SubScores(analysis) ==
  LET Of(weights) == {analysis[weights[k].key].score : k \in 1..Len(weights)}
  IN CASE analysis.type = "essay" -> Of(essayWeights)
       [] analysis.type = "worksheet" -> Of(worksheetWeights)
       [] analysis.type = "report" -> Of(reportWeights)
       [] analysis.type = "creative" -> Of(creativeWeights)
       [] analysis.type = "analysis" -> Of(analysisWeights)
       [] analysis.type = "general" ->
            {analysis.organization.score, analysis.clarity, analysis.depth}

\* analyzeByType has returned the analysis of one of its handlers
C27_Handled ==
  /\ mode = "eval" /\ pc = "done" /\ call.op = "analyzeByType"
  /\ ret.kind = "return"
  /\ "type" \in DOMAIN ret.value

\* C27: every sub-score that a type handler computes lies in [0, 1] for
\* every text: the sub-scores of the five typed handlers and the
\* organization score, the clarity and the depth of the general handler,
\* also when a count that the raw value is divided by is 0
C27_SubScoresInUnit ==
  C27_Handled => \A x \in C27_SubScores(ret.value) : C27_InUnit(x)

\* the general handler has returned a clarity above 1 for a text whose
\* sentences have fewer than 15 words on average
C27_ClarityAboveOne ==
  /\ C27_Handled
  /\ ret.value.type = "general"
  /\ Sentences(text) # <<>>
  /\ Lt(Div(I(Len(SplitSpaces(text))), I(Len(Sentences(text)))), I(15))
  /\ Gt(ret.value.clarity, I(1))

\* the sum of the weights of a table
C28_Total(weights) == WeightedSum([k \in {weights[j].key : j \in 1..Len(weights)} |->
                                     [score |-> I(1)]], weights)

\* the weighted sum of the sub-scores of an analysis, written out for the
\* table of weights of each type
C28_Sum(a) ==
  LET W(x, hundredths) == Mul(x.score, Dec(hundredths))
      Sum(xs) == Add(Add(Add(Add(Add(xs[1], xs[2]), xs[3]), xs[4]), xs[5]), xs[6])
  IN CASE a.type = "essay" ->
            Sum(<<W(a.structure, 25), W(a.argumentation, 25), W(a.evidence, 20),
                  W(a.style, 15), W(a.thesis, 10), W(a.conclusion, 5)>>)
       [] a.type = "worksheet" ->
            Sum(<<W(a.completeness, 30), W(a.accuracy, 25), W(a.understanding, 20),
                  W(a.effort, 15), W(a.organization, 10), I(0)>>)
       [] a.type = "report" ->
            Sum(<<W(a.structure, 20), W(a.research, 20), W(a.citations, 15),
                  W(a.objectivity, 15), W(a.methodology, 15), W(a.findings, 15)>>)
       [] a.type = "creative" ->
            Sum(<<W(a.creativity, 25), W(a.voice, 20), W(a.imagery, 20),
                  W(a.dialogue, 15), W(a.plot, 10), W(a.character, 10)>>)
       [] a.type = "analysis" ->
            Sum(<<W(a.criticalThinking, 25), W(a.evidence, 20), W(a.interpretation, 20),
                  W(a.evaluation, 15), W(a.synthesis, 10), W(a.argumentation, 10)>>)

\* C28: for the types essay, worksheet, report, creative and analysis the
\* overallScore of the analysis is the sum of sub-score times weight, with
\* the weights of the table of the type, which sum to 1, rounded to 2
\* decimals, and lies in [0, 1]; the overallScore of the general type is
\* always 0.7
C28_OverallScoreIsWeightedSum ==
  C27_Handled =>
    IF ret.value.type = "general" THEN ret.value.overallScore = Dec(70)
    ELSE /\ ret.value.overallScore = Round2(C28_Sum(ret.value))
         /\ C27_InUnit(ret.value.overallScore)
         /\ \A weights \in {essayWeights, worksheetWeights, reportWeights,
                            creativeWeights, analysisWeights} : C28_Total(weights) = I(1)

\* a typed handler has returned an overallScore that the rounding has
\* changed, from sub-scores that are not all equal
C28_RoundedScore ==
  /\ C27_Handled
  /\ ret.value.type # "general"
  /\ Cardinality(C27_SubScores(ret.value)) >= 3
  /\ ret.value.overallScore # C28_Sum(ret.value)
  /\ Gt(ret.value.overallScore, I(0))

-----------------------------------------------------------------------------
(* Properties of the text metrics: FeedbackProcessor.analyzeText *)

\* the text is empty or only white space
C14_Blank(t) == \A k \in 1..Len(t) : IsSpace(t[k])

\* C14: analyzeText on an empty or white-space-only text returns the counts
\* 0 without raising, and every ratio whose denominator is 0 is 0
C14_BlankTextGivesZeros ==
  (mode = "eval" /\ pc = "done" /\ call.op = "analyzeText" /\ C14_Blank(text)) =>
     /\ ret.kind = "return"
     /\ ret.value.wordCount = 0
     /\ ret.value.sentenceCount = 0
     /\ ret.value.paragraphCount = 0
     /\ ret.value.avgWordsPerSentence = I(0)
     /\ ret.value.avgWordsPerParagraph = I(0)
     /\ ret.value.readabilityScore = I(0)
     /\ ret.value.vocabulary.diversity = I(0)

\* analyzeText has returned for the empty text with a readability and a
\* vocabulary diversity that are no numbers
C14_NaNForEmptyText ==
  /\ mode = "eval" /\ pc = "done" /\ call.op = "analyzeText"
  /\ text = <<>>
  /\ ret.kind = "return"
  /\ ret.value.wordCount = 0
  /\ IsNaN(ret.value.readabilityScore)
  /\ IsNaN(ret.value.vocabulary.diversity)

\* the words of a text: its pieces between white space that are not empty
C15_Words(t) == SelectSeq(SplitSpaces(t), LAMBDA w : w # <<>>)

\* the distinct case-folded words
C15_Distinct(words) == {toLowerCase(words[k]) : k \in 1..Len(words)}

\* C15: the vocabulary has uniqueWords = the number of distinct case-folded
\* words, at most totalWords, and diversity = uniqueWords / totalWords
\* rounded to 2 decimals, a number of [0, 1], 0 without words and 1 when all
\* words are distinct
C15_VocabularyDiversity ==
  (mode = "eval" /\ pc = "done" /\ call.op = "analyzeText") =>
     /\ ret.value.vocabulary.totalWords = Len(C15_Words(text))
     /\ ret.value.vocabulary.uniqueWords = Cardinality(C15_Distinct(C15_Words(text)))
     /\ ret.value.vocabulary.uniqueWords <= ret.value.vocabulary.totalWords
     /\ Len(C15_Words(text)) > 0 =>
           \* |diversity - unique / total| <= 1/200, in hundredths
           /\ ret.value.vocabulary.diversity.d \in {1, 2, 4, 5, 10, 20, 25, 50, 100}
           /\ Le(Sub(Div(I(ret.value.vocabulary.uniqueWords), I(ret.value.vocabulary.totalWords)),
                     ret.value.vocabulary.diversity), Q(1, 200))
           /\ Le(Sub(ret.value.vocabulary.diversity,
                     Div(I(ret.value.vocabulary.uniqueWords), I(ret.value.vocabulary.totalWords))),
                 Q(1, 200))
     /\ IsFinite(ret.value.vocabulary.diversity)
     /\ Ge(ret.value.vocabulary.diversity, I(0))
     /\ Le(ret.value.vocabulary.diversity, I(1))
     /\ Len(C15_Words(text)) = 0 => ret.value.vocabulary.diversity = I(0)
     /\ ( Len(C15_Words(text)) > 0
          /\ Cardinality(C15_Distinct(C15_Words(text))) = Len(C15_Words(text)) )
        => ret.value.vocabulary.diversity = I(1)

\* the vocabulary of a text without words has been returned with a
\* diversity that is no number
C15_NaNDiversity ==
  /\ mode = "eval" /\ pc = "done" /\ call.op = "analyzeText"
  /\ text = TXT_Blank
  /\ ret.value.vocabulary.totalWords = 0
  /\ IsNaN(ret.value.vocabulary.diversity)

\* the number of issues of a kind that a list has for a sentence
C16_Count(issues, type, sentence) ==
  Cardinality({i \in 1..Len(issues) : issues[i].type = type /\ issues[i].sentence = sentence})

C19_TextOf(i) == extractTextContent(input.items[i]).value

\* C19: a successful analysis exposes both readability measures: its
\* textAnalysis holds the Flesch Reading Ease of the text metrics, and the
\* analysis holds the normalized grade-level score of the evaluation, in [0, 1]
C19_BothReadabilityMeasures ==
  mode = "bulk" =>
    \A i \in 1..Len(results) :
       results[i].status = "success" =>
          /\ results[i].analysis.textAnalysis.readabilityScore =
                analyzeText(C19_TextOf(i)).readabilityScore
          /\ results[i].analysis.readabilityScore = calculateReadability(C19_TextOf(i))
          /\ Le(I(0), results[i].analysis.readabilityScore)
          /\ Le(results[i].analysis.readabilityScore, I(1))

\* a successful analysis whose two readabilityScore fields both hold the
\* normalized score, which differs from the Flesch Reading Ease of the text
C19_ReadingEaseOverwritten ==
  /\ mode = "bulk" /\ pc = "done" /\ outcome = "returned"
  /\ \E i \in 1..Len(results) :
        /\ results[i].status = "success"
        /\ results[i].analysis.textAnalysis.readabilityScore =
              results[i].analysis.readabilityScore
        /\ results[i].analysis.readabilityScore = calculateReadability(C19_TextOf(i))
        /\ IsFinite(analyzeText(C19_TextOf(i)).readabilityScore)
        /\ analyzeText(C19_TextOf(i)).readabilityScore # results[i].analysis.readabilityScore

\* the names of the entries of dimensionScores
C20_Scored(analysis) ==
  {analysis.dimensionScores[k].name : k \in 1..Len(analysis.dimensionScores)}

\* the elements of a list of criteria
C20_Requested(criteria) == {criteria[k] : k \in 1..Len(criteria)}

\* C20: with criteria in the options, dimensionScores has an entry for each
\* dimension requested and for no other; without criteria it has an entry for
\* each of the seven weighted dimensions
C20_CriteriaSelectDimensions ==
  mode = "bulk" =>
    \A i \in 1..Len(results) :
       results[i].status = "success" =>
          C20_Scored(results[i].analysis) =
             IF Len(options.evaluationCriteria) > 0
             THEN C20_Requested(options.evaluationCriteria)
             ELSE C11_WeightedDimensions

\* two dimensions were requested, and the analysis scores four more
C20_UnrequestedDimensionsScored ==
  /\ mode = "bulk" /\ pc = "done" /\ outcome = "returned"
  /\ options.evaluationCriteria = <<"structure", "clarity">>
  /\ \E i \in 1..Len(results) :
        /\ results[i].status = "success"
        /\ results[i].analysis.metadata.evaluationCriteria = <<"structure", "clarity">>
        /\ C20_Requested(options.evaluationCriteria) \subseteq C20_Scored(results[i].analysis)
        /\ Cardinality(C20_Scored(results[i].analysis)) = 6
        /\ "creativity" \in C20_Scored(results[i].analysis)

\* processSingleAssignment of every file and options of the inputs, alone
C18_Alone ==
  [file \in FilePool, opts \in OptionsPool |-> processSingleAssignment(file, opts)]

C18_BatchWithFailureBetween ==
  /\ mode = "bulk" /\ pc = "done" /\ outcome = "returned"
  /\ Len(results) = 3
  /\ results[1].status = "success"
  /\ results[2].status = "error"
  /\ results[3].status = "success"
  /\ results[1].analysis # results[3].analysis

\* C21: an error raised while a text is evaluated, or a dimension that is not
\* registered, makes the evaluation call throw: evaluate of a text that is
\* null throws, evaluate throws when its table names a dimension that has no
\* analyzer, and evaluateDimension throws for a name that is no dimension
C21_ErrorsPropagate ==
  (mode = "eval" /\ pc = "done") =>
     /\ call.op = "evaluateNull" => ret.kind = "throw"
     /\ ( /\ call.op = "evaluate"
          /\ \E k \in 1..Len(EvaluationWeights) : EvaluationWeights[k].name \notin AnalyzerNames )
        => ret.kind = "throw"
     /\ (call.op = "evaluateDimension" /\ call.dimension \notin AnalyzerNames)
        => ret.kind = "throw"

\* evaluate of a text that is null has returned an object with the default
\* score 0.5 and the message of the error it caught
C21_DefaultScoreReturned ==
  /\ mode = "eval" /\ pc = "done"
  /\ call.op = "evaluateNull"
  /\ ret.kind = "return"
  /\ ret.value.overallScore = Dec(50)
  /\ ret.value.details = MSG_NullSplit
  /\ "dimensions" \notin DOMAIN ret.value

\* C22: the sentence index of every grammar issue is the position, counted
\* from 1, of its sentence among the sentences that are not empty, those that
\* sentenceCount counts: it lies in 1..sentenceCount, and the sentence at
\* that position is the one with the fault
C22_IndexAmongNonEmptySentences ==
  (mode = "eval" /\ pc = "done" /\ call.op = "analyzeText") =>
     \A i \in 1..Len(ret.value.grammarIssues) :
        /\ ret.value.grammarIssues[i].sentence \in 1..ret.value.sentenceCount
        /\ ret.value.grammarIssues[i].type = "capitalization" =>
              trim(Sentences(text)[ret.value.grammarIssues[i].sentence])[1] \in LowerLetters
        /\ ret.value.grammarIssues[i].type = "run-on" =>
              Len(SplitSpaces(trim(Sentences(text)[ret.value.grammarIssues[i].sentence]))) > 30

\* the text starts with a terminator and has one sentence, whose
\* capitalization issue carries the index 2
C22_IndexBeyondSentenceCount ==
  /\ mode = "eval" /\ pc = "done" /\ call.op = "analyzeText"
  /\ text # <<>>
  /\ text[1] \in Terminators
  /\ ret.value.sentenceCount = 1
  /\ Len(ret.value.grammarIssues) = 1
  /\ ret.value.grammarIssues[1].type = "capitalization"
  /\ ret.value.grammarIssues[1].sentence = 2

\* the dimension scores that the call of generateFeedbackSuggestions was given
C23_Scores == DimensionScoresOf(text, call.dimension, "essay")

\* the suggestions of the list that are about a dimension
C23_AboutDimensions(suggestions) ==
  SelectSeq(suggestions, LAMBDA sg : sg.category # "Grammar & Style")

\* the name a suggestion shows for a dimension with canned text
C23_CategoryOf ==
  [structure |-> "Structure", creativity |-> "Creativity", accuracy |-> "Accuracy",
   presentation |-> "Presentation", clarity |-> "Clarity", depth |-> "Depth"]

\* C23: the suggestion list has exactly one suggestion for every evaluated
\* dimension that scores below 0.7, canned text or not, and none for the
\* others; the suggestion of a dimension has priority high for a score
\* below 0.4 and medium otherwise
C23_OneSuggestionPerWeakDimension ==
  (mode = "eval" /\ pc = "done" /\ call.op = "generateFeedbackSuggestions") =>
     /\ Len(C23_AboutDimensions(ret.value)) =
           Cardinality({k \in 1..Len(C23_Scores) : Lt(C23_Scores[k].result.score, Dec(70))})
     /\ \A k \in 1..Len(C23_Scores) :
           C23_Scores[k].name \in DOMAIN C23_CategoryOf =>
              Cardinality({i \in 1..Len(ret.value) :
                             /\ ret.value[i].category = C23_CategoryOf[C23_Scores[k].name]
                             /\ ret.value[i].priority =
                                   IF Lt(C23_Scores[k].result.score, Dec(40))
                                   THEN "high" ELSE "medium"}) =
                 IF Lt(C23_Scores[k].result.score, Dec(70)) THEN 1 ELSE 0

\* critical_thinking and structure both score below 0.7, and the list has a
\* suggestion for structure only
C23_NoSuggestionWithoutCannedText ==
  /\ mode = "eval" /\ pc = "done" /\ call.op = "generateFeedbackSuggestions"
  /\ call.dimension = <<"critical_thinking", "originality", "structure">>
  /\ C23_Scores[1].name = "critical_thinking"
  /\ Lt(C23_Scores[1].result.score, Dec(70))
  /\ Lt(C23_Scores[3].result.score, Dec(70))
  /\ Len(C23_AboutDimensions(ret.value)) = 1
  /\ C23_AboutDimensions(ret.value)[1].category = "Structure"

\* the place of a priority in the order of the list
C24_Rank == [high |-> 1, medium |-> 2, low |-> 3]

\* a suggestion list is in order: by priority, and by ascending score among
\* suggestions of the same priority
C24_InOrder(suggestions) ==
  \A i, j \in 1..Len(suggestions) :
     i < j =>
        /\ C24_Rank[suggestions[i].priority] <= C24_Rank[suggestions[j].priority]
        /\ suggestions[i].priority = suggestions[j].priority =>
              Le(suggestions[i].score, suggestions[j].score)

\* a suggestion list has one grammar and style suggestion when the text has
\* grammar issues, and none when it has not
C24_GrammarPlaced(suggestions, grammarIssues) ==
  Cardinality({i \in 1..Len(suggestions) : suggestions[i].category = "Grammar & Style"}) =
     IF Len(grammarIssues) > 0 THEN 1 ELSE 0

\* C24: the suggestion list that generateFeedbackSuggestions returns, called
\* alone or for a successful analysis, is sorted by priority, high before
\* medium before low, and by ascending score within a priority, and it holds
\* the grammar and style suggestion exactly when the text has grammar issues
C24_SuggestionsSorted ==
  /\ (mode = "eval" /\ pc = "done" /\ call.op = "generateFeedbackSuggestions") =>
        /\ C24_InOrder(ret.value)
        /\ C24_GrammarPlaced(ret.value, analyzeText(text).grammarIssues)
  /\ mode = "bulk" =>
        \A i \in 1..Len(results) :
           results[i].status = "success" =>
              /\ C24_InOrder(results[i].analysis.feedbackSuggestions)
              /\ C24_GrammarPlaced(results[i].analysis.feedbackSuggestions,
                                   results[i].analysis.textAnalysis.grammarIssues)

\* a list with suggestions of both priorities whose grammar and style
\* suggestion, pushed last, has been moved in front of a dimension's
\* suggestion
C24_GrammarMovedForward ==
  /\ mode = "eval" /\ pc = "done" /\ call.op = "generateFeedbackSuggestions"
  /\ \E i, j, k \in 1..Len(ret.value) :
        /\ i < j
        /\ ret.value[i].category = "Grammar & Style"
        /\ ret.value[j].category # "Grammar & Style"
        /\ ret.value[k].priority = "medium"
        /\ ret.value[i].priority = "high"

\* the priority that an improvement area has for a score below 0.7
C25_Band(score) ==
  IF Lt(score, Dec(40)) THEN "high" ELSE IF Lt(score, Dec(60)) THEN "medium" ELSE "low"

\* the list of areas has an entry for the dimension with the priority of
\* the score
C25_Listed(areas, name, score) ==
  \E i \in 1..Len(areas) :
     /\ areas[i].dimension \in {name, Category(name)}
     /\ "priority" \in DOMAIN areas[i]
     /\ areas[i].priority = C25_Band(score)

\* C25: the improvementAreas of a successful analysis have an entry for
\* every dimension of dimensionScores that scores below 0.7, with priority
\* high below 0.4, medium below 0.6 and low otherwise, and no entry for a
\* dimension that scores 0.7 or more
C25_AreasForWeakDimensions ==
  mode = "bulk" =>
    \A i \in 1..Len(results) :
       results[i].status = "success" =>
          \A k \in 1..Len(results[i].analysis.dimensionScores) :
             IF Lt(results[i].analysis.dimensionScores[k].result.score, Dec(70))
             THEN C25_Listed(results[i].analysis.improvementAreas,
                             results[i].analysis.dimensionScores[k].name,
                             results[i].analysis.dimensionScores[k].result.score)
             ELSE \A j \in 1..Len(results[i].analysis.improvementAreas) :
                     results[i].analysis.improvementAreas[j].dimension \notin
                        {results[i].analysis.dimensionScores[k].name,
                         Category(results[i].analysis.dimensionScores[k].name)}

\* a successful analysis with a dimension that scores in [0.5, 0.7) and is in
\* no improvement area: the areas are the areasForImprovement of the evaluation
C25_WeakDimensionNotListed ==
  /\ mode = "bulk" /\ pc = "done" /\ outcome = "returned"
  /\ \E i \in 1..Len(results) :
        /\ results[i].status = "success"
        /\ \E k \in 1..Len(results[i].analysis.dimensionScores) :
              /\ Ge(results[i].analysis.dimensionScores[k].result.score, Dec(50))
              /\ Lt(results[i].analysis.dimensionScores[k].result.score, Dec(70))
              /\ \A j \in 1..Len(results[i].analysis.improvementAreas) :
                    results[i].analysis.improvementAreas[j].dimension #
                       results[i].analysis.dimensionScores[k].name
        /\ results[i].analysis.improvementAreas = evaluate(C19_TextOf(i), "essay").areasForImprovement

\* the words of the text, as the text metrics count them
C26_Words == SelectSeq(SplitSpaces(text), NonEmpty)

\* some word occurs more than 5 times in the text
C26_Overused ==
  \E i \in 1..Len(C26_Words) :
     Cardinality({j \in 1..Len(C26_Words) : C26_Words[j] = C26_Words[i]}) > 5

\* the list of areas has an area of the name
C26_Has(areas, name) == \E i \in 1..Len(areas) : areas[i].dimension = name

\* C26: the areas that identifyImprovementAreas returns for the text metrics
\* of a text include a 'Vocabulary' area exactly when the vocabulary
\* diversity of the metrics is below 0.4, and a 'Word Choice' area exactly
\* when some word occurs more than 5 times
C26_VocabularyAreas ==
  (mode = "eval" /\ pc = "done" /\ call.op = "identifyImprovementAreas") =>
     /\ C26_Has(ret.value, "Vocabulary") <=>
           Lt(analyzeText(text).vocabulary.diversity, Dec(40))
     /\ C26_Has(ret.value, "Word Choice") <=> C26_Overused

\* the metrics report a diversity below 0.4 for a text that uses one word
\* more than 5 times, and the areas have neither a 'Vocabulary' nor a
\* 'Word Choice' area
C26_LowDiversityWithoutArea ==
  /\ mode = "eval" /\ pc = "done" /\ call.op = "identifyImprovementAreas"
  /\ Lt(analyzeText(text).vocabulary.diversity, Dec(40))
  /\ C26_Overused
  /\ ~C26_Has(ret.value, "Vocabulary")
  /\ ~C26_Has(ret.value, "Word Choice")

-----------------------------------------------------------------------------
(* Properties of the syllable count: FeedbackProcessor.countSyllables *)

\* the word in lower case without its ending -es, -ed or -e (with the
\* consonant other than l in front of it) and without a leading y
C29_Stripped(word) ==
  LET NoY(w1) == IF Len(w1) >= 1 /\ w1[1] = "y" THEN Tail(w1) ELSE w1
      NoEnding(w0, n) ==
        NoY(IF NotVowelOrL(w0[n - 2]) /\ w0[n - 1] = "e" /\ w0[n] = "s"
            THEN SubSeq(w0, 1, n - 3)
            ELSE IF w0[n - 1] = "e" /\ w0[n] = "d" THEN SubSeq(w0, 1, n - 2)
            ELSE IF NotVowelOrL(w0[n - 1]) /\ w0[n] = "e" THEN SubSeq(w0, 1, n - 2)
            ELSE w0)
  IN NoEnding(toLowerCase(word), Len(word))

\* the number of maximal runs of vowels of w: the positions where a run starts
C29_VowelRuns(w) ==
  Cardinality({i \in 1..Len(w) : w[i] \in VowelsY /\ (i = 1 \/ w[i - 1] \notin VowelsY)})

\* the longest run of vowels of w has at least n letters
C29_HasRunOf(w, n) ==
  \E i \in 1..(Len(w) - n + 1) : \A k \in i..(i + n - 1) : w[k] \in VowelsY

\* countSyllables has returned
C29_Counted == mode = "word" /\ pc = "done" /\ call.op = "countSyllables"

\* C29: countSyllables returns 1 for a word of at most 3 letters; for a
\* longer word it returns the number of maximal runs of vowels (a, e, i, o,
\* u, y) of the word in lower case without its ending e, ed or es and
\* without a leading y, or 1 when there is no run, so that a run of three or
\* more vowels counts as one syllable; the result is at least 1
C29_SyllablesAreVowelRuns ==
  C29_Counted =>
    /\ ret.value >= 1
    /\ ret.value = IF Len(text) <= 3 THEN 1
                   ELSE IF C29_VowelRuns(C29_Stripped(text)) = 0 THEN 1
                   ELSE C29_VowelRuns(C29_Stripped(text))

\* countSyllables has returned more than the number of the runs of vowels
\* for a word with a run of three vowels
C29_LongRunCountedTwice ==
  /\ C29_Counted
  /\ Len(text) > 3
  /\ C29_HasRunOf(C29_Stripped(text), 3)
  /\ ret.value > C29_VowelRuns(C29_Stripped(text))

-----------------------------------------------------------------------------
(* Properties of the word count of an analysis *)

\* the number of the tokens of t between white space that are not empty
C30_Tokens(t) == Len(SelectSeq(SplitSpaces(t), NonEmpty))

\* C30: the wordCount of a successful analysis, which is the wordCount that
\* evaluate reports and uses for the length penalty, is the number of the
\* non-empty tokens of the text between white space, the wordCount of the
\* text metrics, also for a text that starts or ends with white space
C30_WordCountIsTokenCount ==
  /\ mode = "bulk" =>
       \A i \in 1..Len(results) :
          results[i].status = "success" =>
             /\ results[i].analysis.wordCount = C30_Tokens(C19_TextOf(i))
             /\ results[i].analysis.wordCount = analyzeText(C19_TextOf(i)).wordCount
             /\ results[i].analysis.wordCount = evaluate(C19_TextOf(i), "essay").wordCount
  /\ (mode = "eval" /\ pc = "done" /\ call.op = "evaluate") =>
       ret.value.wordCount = C30_Tokens(text)

\* a successful analysis of a text of two words that ends with a line feed
\* reports three words
C30_EmptyTokenCounted ==
  /\ mode = "bulk"
  /\ \E i \in 1..Len(results) :
        /\ results[i].status = "success"
        /\ C19_TextOf(i)[Len(C19_TextOf(i))] = "\n"
        /\ analyzeText(C19_TextOf(i)).wordCount = 2
        /\ results[i].analysis.wordCount = 3
        /\ results[i].analysis.textAnalysis.wordCount = 3

====
